---- MODULE Spec2Model ----
(***************************************************************************)
(* State-machine model of langgraph_stream_parser: the StreamParser        *)
(* dispatcher (parser.py), the UpdatesHandler and MessagesHandler          *)
(* (handlers/), the message decoders (extractors/messages.py), the         *)
(* built-in extractors (extractors/builtins.py) and the interrupt          *)
(* reconciler (extractors/interrupts.py).                                  *)
(*                                                                         *)
(* Python values are records tagged by the field "shape": "none" (None),  *)
(* "str" (text, v = the sequence of its characters), "name" (a short str   *)
(* used as a key, a mode name: v = a TLA+ string), "dict" and "list" and   *)
(* "tuple" (items), "object" (a message or an interrupt wrapper,    *)
(* with its attributes as fields).  Tool names, tool-call ids and node     *)
(* names are TLA+ strings, None among them is the atom NoneV.  Timestamps  *)
(* are not modelled; duration_ms is "None" or "float".                     *)
(***************************************************************************)
EXTENDS Integers, Sequences, FiniteSets, TLC

\* Number of raw chunks the environment delivers over one run of the model.
MaxChunks == 2

NoneV == "None"

----------------------------------------------------------------------------
(* str helpers *)

WhiteSpace == {" "}

LowerChar(c) ==
    CASE c = "E" -> "e"
      [] c = "F" -> "f"
      [] c = "T" -> "t"
      [] c = "H" -> "h"
      [] c = "R" -> "r"
      [] c = "A" -> "a"
      [] c = "I" -> "i"
      [] c = "L" -> "l"
      [] c = "D" -> "d"
      [] OTHER -> c

lower(s) == [i \in 1..Len(s) |-> LowerChar(s[i])]

RECURSIVE lstrip(_)
lstrip(s) == IF s # <<>> /\ Head(s) \in WhiteSpace THEN lstrip(Tail(s)) ELSE s

RECURSIVE rstrip(_)
rstrip(s) ==
    IF s # <<>> /\ s[Len(s)] \in WhiteSpace
    THEN rstrip(SubSeq(s, 1, Len(s) - 1))
    ELSE s

strip(s) == rstrip(lstrip(s))

startswith(s, p) == Len(s) >= Len(p) /\ SubSeq(s, 1, Len(p)) = p

\* Concatenation of a sequence of sequences.
RECURSIVE Flatten(_)
Flatten(ss) == IF ss = <<>> THEN <<>> ELSE Head(ss) \o Flatten(Tail(ss))

----------------------------------------------------------------------------
(* Python values *)

PyNone == [shape |-> "none"]
PyStr(s) == [shape |-> "str", v |-> s]
PyName(n) == [shape |-> "name", v |-> n]
PyDict(items) == [shape |-> "dict", items |-> items]
PyList(items) == [shape |-> "list", items |-> items]
PyTuple(items) == [shape |-> "tuple", items |-> items]
PyBool(b) == [shape |-> "bool", v |-> b]

IsStr(x) == x.shape \in {"str", "name"}
IsContainer(x) == x.shape \in {"dict", "list", "tuple"}

\* bool(x)
Truthy(x) ==
    CASE x.shape = "none" -> FALSE
      [] x.shape = "str" -> x.v # <<>>
      [] x.shape = "bool" -> x.v
      [] IsContainer(x) -> x.items # <<>>
      [] OTHER -> TRUE

\* key in d, d.get(key, default) for a dict d whose items are [k, v] pairs.
HasKey(d, key) == \E i \in 1..Len(d.items) : d.items[i].k = key

DictGet(d, key, default) ==
    IF HasKey(d, key)
    THEN d.items[CHOOSE i \in 1..Len(d.items) : d.items[i].k = key].v
    ELSE default

\* str(x): a str is returned as it is, None gives "None"; a container gives
\* its repr, of which only the brackets and the element texts are kept.
RECURSIVE PyToStr(_)
RECURSIVE ReprItems(_)
ReprItems(items) ==
    IF items = <<>> THEN <<>>
    ELSE (IF "k" \in DOMAIN Head(items)
          THEN <<"'", Head(items).k, "'", ":", " ">> \o PyToStr(Head(items).v)
          ELSE PyToStr(Head(items)))
         \o (IF Len(items) > 1 THEN <<",", " ">> ELSE <<>>)
         \o ReprItems(Tail(items))

PyToStr(x) ==
    CASE x.shape = "str" -> x.v
      [] x.shape = "name" -> <<x.v>>
      [] x.shape = "none" -> <<"N", "o", "n", "e">>
      [] x.shape = "dict" -> <<"{">> \o ReprItems(x.items) \o <<"}">>
      [] x.shape = "list" -> <<"[">> \o ReprItems(x.items) \o <<"]">>
      [] x.shape = "tuple" -> <<"(">> \o ReprItems(x.items) \o <<")">>
      [] OTHER -> <<"<", "object", ">">>

\* The texts used as inputs.
sHi == <<"H", "i">>
sPadded == <<" ", "H", "i", " ">>
sOk == <<"o", "k">>
sErr == <<"E", "r", "r", "o", "r", ":", "x">>
sFailed == <<" ", "F", "A", "I", "L", "E", "D", ":", " ">>
sNoError == <<"n", "o", " ", "e", "r", "r", "o", "r", ":">>
sTraceback == <<"T", "r", "a", "c", "e", "b", "a", "c", "k">>
sBoom == <<"b", "o", "o", "m">>
sJsonRefl == <<"{", "\"", "r", "e", "f", "l", "e", "c", "t", "i", "o", "n",
               "\"", ":", "\"", "R", "\"", "}">>

----------------------------------------------------------------------------
(* Messages: objects with the attributes the decoders read.  An attribute  *)
(* an object does not have reads as its getattr default.                   *)

\* usage_metadata: None, or a dict; total = -1 stands for a dict without the
\* key 'total_tokens'; k = "dict_str" for a dict whose 'total_tokens' is a str.
UsageNone == [k |-> "none", input |-> 0, output |-> 0, total |-> 0]
UsageDict(i, o, t) == [k |-> "dict", input |-> i, output |-> o, total |-> t]
UsageStrTotal == [k |-> "dict_str", input |-> 1, output |-> 1, total |-> 0]

Msg(type, content, tool_calls, name, tool_call_id, status, artifact, usage) ==
    [shape |-> "object", type |-> type, content |-> content,
     tool_calls |-> tool_calls, name |-> name, tool_call_id |-> tool_call_id,
     status |-> status, artifact |-> artifact, usage_metadata |-> usage]

AIMessage(content, tool_calls, usage) ==
    Msg("AIMessage", content, tool_calls, NoneV, NoneV, NoneV, PyNone, usage)
AIMessageChunk(content, tool_calls) ==
    Msg("AIMessageChunk", content, tool_calls, NoneV, NoneV, NoneV, PyNone,
        UsageNone)
ToolMessage(content, name, tool_call_id, status, artifact) ==
    Msg("ToolMessage", content, <<>>, name, tool_call_id, status, artifact,
        UsageNone)
HumanMessage(content) ==
    Msg("HumanMessage", content, <<>>, NoneV, NoneV, NoneV, PyNone, UsageNone)

\* A tool-call record of AIMessage.tool_calls.
TC(id, name) == [id |-> id, name |-> name, args |-> "args"]

----------------------------------------------------------------------------
(* Message decoders, extractors/messages.py *)

RECURSIVE JoinBlocks(_)
JoinBlocks(blocks) ==
    IF blocks = <<>> THEN <<>>
    ELSE LET b == Head(blocks)
             part == IF b.shape = "dict"
                     THEN LET t == DictGet(b, "text", PyStr(PyToStr(b)))
                          IN  IF t.shape = "str" THEN t.v ELSE PyToStr(t)
                     ELSE PyToStr(b)
         IN  part \o (IF Len(blocks) > 1 THEN <<" ">> ELSE <<>>)
                  \o JoinBlocks(Tail(blocks))

extract_message_content(message) ==
    IF message.shape # "object" \/ "content" \notin DOMAIN message THEN <<>>
    ELSE LET content == message.content
         IN  CASE content.shape = "str" -> content.v
               [] content.shape = "list" -> JoinBlocks(content.items)
               [] OTHER -> PyToStr(content)

\* The echo of a tool invocation in content, as the regular expression of
\* clean_tool_dict_from_content matches it: "{'id': '<id>', 'input': {...},
\* 'name': '<name>', 'type': 'tool_use'}", kept as one character.
ToolEcho == "{'id':'c','input':{},'name':'n','type':'tool_use'}"

clean_tool_dict_from_content(content) ==
    strip(SelectSeq(content, LAMBDA c : c # ToolEcho))

extract_tool_calls(message) ==
    IF message.shape # "object" \/ "tool_calls" \notin DOMAIN message
       \/ message.tool_calls = <<>>
    THEN <<>>
    ELSE [i \in 1..Len(message.tool_calls) |->
            [id |-> message.tool_calls[i].id,
             name |-> message.tool_calls[i].name,
             args |-> message.tool_calls[i].args]]

error_prefixes ==
    << <<"e", "r", "r", "o", "r", ":">>,
       <<"f", "a", "i", "l", "e", "d", ":">>,
       <<"e", "x", "c", "e", "p", "t", "i", "o", "n", ":">>,
       <<"t", "r", "a", "c", "e", "b", "a", "c", "k">> >>

\* (mutation) the error key of a dict content is looked at before the status.
detect_tool_error_DictFirst(message) ==
    LET content == message.content IN
    IF content.shape = "dict" /\ Truthy(DictGet(content, "error", PyNone))
    THEN [is_error |-> TRUE,
          error_message |-> PyStr(PyToStr(DictGet(content, "error", PyNone)))]
    ELSE IF message.status = "error"
    THEN [is_error |-> TRUE,
          error_message |-> IF Truthy(content) THEN PyStr(PyToStr(content))
                            ELSE PyStr(<<"Unknown error">>)]
    ELSE IF content.shape = "str"
            /\ \E i \in 1..Len(error_prefixes) :
                  startswith(strip(lower(content.v)), error_prefixes[i])
    THEN [is_error |-> TRUE, error_message |-> content]
    ELSE [is_error |-> FALSE, error_message |-> PyNone]

\* detect_tool_error returns (is_error, error_message).
detect_tool_error(message) ==
    LET content == message.content IN
    IF message.status = "error"
    THEN [is_error |-> TRUE,
          error_message |-> IF Truthy(content) THEN PyStr(PyToStr(content))
                            ELSE PyStr(<<"Unknown error">>)]
    ELSE IF content.shape = "dict" /\ Truthy(DictGet(content, "error", PyNone))
    THEN [is_error |-> TRUE,
          error_message |-> PyStr(PyToStr(DictGet(content, "error", PyNone)))]
    ELSE IF content.shape = "str"
            /\ \E i \in 1..Len(error_prefixes) :
                  startswith(strip(lower(content.v)), error_prefixes[i])
    THEN [is_error |-> TRUE, error_message |-> content]
    ELSE [is_error |-> FALSE, error_message |-> PyNone]

get_message_type_name(message) ==
    IF message.shape = "object" THEN message.type ELSE message.shape

----------------------------------------------------------------------------
(* Events, events.py *)

ContentEvent(content, role, node) ==
    [type |-> "ContentEvent", content |-> content, role |-> role,
     node |-> node]
ToolCallStartEvent(id, name, args, node) ==
    [type |-> "ToolCallStartEvent", id |-> id, name |-> name, args |-> args,
     node |-> node]
ToolCallEndEvent(id, name, result, status, error_message, duration_ms) ==
    [type |-> "ToolCallEndEvent", id |-> id, name |-> name,
     result |-> result, status |-> status, error_message |-> error_message,
     duration_ms |-> duration_ms]
ToolExtractedEvent(tool_name, extracted_type, data) ==
    [type |-> "ToolExtractedEvent", tool_name |-> tool_name,
     extracted_type |-> extracted_type, data |-> data]
InterruptEvent(action_requests, review_configs, raw_value) ==
    [type |-> "InterruptEvent", action_requests |-> action_requests,
     review_configs |-> review_configs, raw_value |-> raw_value]
StateUpdateEvent(node, key, value) ==
    [type |-> "StateUpdateEvent", node |-> node, key |-> key, value |-> value]
UsageEvent(input_tokens, output_tokens, total_tokens, node) ==
    [type |-> "UsageEvent", input_tokens |-> input_tokens,
     output_tokens |-> output_tokens, total_tokens |-> total_tokens,
     node |-> node]
CompleteEvent == [type |-> "CompleteEvent"]
ErrorEvent(error, exception) ==
    [type |-> "ErrorEvent", error |-> error, exception |-> exception]

----------------------------------------------------------------------------
(* Extractors, extractors/base.py and extractors/builtins.py.  An extract  *)
(* call gives [raised, value]; value = PyNone is "no match".               *)

sJsonTodos == <<"[", "{", "}", "]">>
sJsonDisplay == <<"{", "\"", "d", "i", "s", "p", "l", "a", "y", "_", "t", "y",
                  "p", "e", "\"", ":", "\"", "i", "\"", "}">>

Returned(v) == [raised |-> FALSE, value |-> v]
Raised == [raised |-> TRUE, value |-> PyNone]

\* json.loads on the texts of this model: sJsonRefl is the object
\* {"reflection": "R"}, sJsonTodos the array [{}], sJsonDisplay the object
\* {"display_type": "i"}; no other text used here is valid JSON
\* (JSONDecodeError).
json_loads(s) ==
    CASE s = sJsonRefl ->
           [ok |-> TRUE,
            value |-> PyDict(<<[k |-> "reflection", v |-> PyStr(<<"R">>)]>>)]
      [] s = sJsonTodos -> [ok |-> TRUE, value |-> PyList(<<PyDict(<<>>)>>)]
      [] s = sJsonDisplay ->
           [ok |-> TRUE,
            value |-> PyDict(<<[k |-> "display_type", v |-> PyStr(<<"i">>)]>>)]
      [] OTHER -> [ok |-> FALSE, value |-> PyNone]

\* ast.literal_eval accepts the same array text.
literal_eval(s) ==
    IF s = sJsonTodos THEN [ok |-> TRUE, value |-> PyList(<<PyDict(<<>>)>>)]
    ELSE [ok |-> FALSE, value |-> PyNone]

ThinkToolExtractor ==
    [tool_name |-> "think_tool", extracted_type |-> "reflection",
     kind |-> "think"]

ThinkToolExtractor_extract(content) ==
    IF content.shape = "str"
    THEN LET parsed == json_loads(content.v) IN
         IF parsed.ok /\ parsed.value.shape = "dict"
         THEN Returned(DictGet(parsed.value, "reflection", PyNone))
         ELSE Returned(IF strip(content.v) # <<>> THEN content ELSE PyNone)
    ELSE IF content.shape = "dict"
    THEN Returned(DictGet(content, "reflection", PyNone))
    ELSE Returned(PyNone)

TodoExtractor ==
    [tool_name |-> "write_todos", extracted_type |-> "todos", kind |-> "todos"]

\* re.search(r'\[.*\]', content, re.DOTALL): from the first "[" to the last
\* "]" after it; <<>> when there is no such span.
BracketSpan(s) ==
    LET opens == {i \in 1..Len(s) : s[i] = "["}
        closes == {j \in 1..Len(s) : s[j] = "]"}
    IN  IF opens = {} THEN <<>>
        ELSE LET i == CHOOSE a \in opens : \A b \in opens : a <= b
                 after == {j \in closes : j > i}
             IN  IF after = {} THEN <<>>
                 ELSE SubSeq(s, i, CHOOSE a \in after : \A b \in after : a >= b)

TodoExtractor_extract(content) ==
    LET reparse(t) ==
            IF t.shape = "str"
            THEN (IF json_loads(t.v).ok THEN json_loads(t.v).value ELSE t)
            ELSE t
        todos ==
            CASE content.shape = "str" ->
                   LET span == BracketSpan(content.v) IN
                   IF span # <<>>
                   THEN (IF literal_eval(span).ok THEN literal_eval(span).value
                         ELSE IF json_loads(span).ok THEN json_loads(span).value
                         ELSE PyNone)
                   ELSE LET parsed == json_loads(content.v) IN
                        IF ~parsed.ok THEN PyNone
                        ELSE IF parsed.value.shape = "dict"
                        THEN reparse(DictGet(parsed.value, "todos", PyNone))
                        ELSE IF parsed.value.shape = "list" THEN parsed.value
                        ELSE PyNone
              [] content.shape = "dict" ->
                   reparse(DictGet(content, "todos", PyNone))
              [] content.shape = "list" -> content
              [] OTHER -> PyNone
    IN  Returned(IF todos.shape = "list" THEN todos ELSE PyNone)

\* Extractors a caller registers (the ToolExtractor protocol): one that
\* matches every input and one whose extract raises.
CustomExtractor(name) ==
    [tool_name |-> name, extracted_type |-> "custom", kind |-> "custom"]
RaisingExtractor(name) ==
    [tool_name |-> name, extracted_type |-> "custom", kind |-> "raising"]

\* extractor.extract(content)
Extract(extractor, content) ==
    CASE extractor.kind = "think" -> ThinkToolExtractor_extract(content)
      [] extractor.kind = "todos" -> TodoExtractor_extract(content)
      [] extractor.kind = "custom" -> Returned(PyStr(<<"X">>))
      [] OTHER -> Raised

----------------------------------------------------------------------------
(* Interrupt reconciler, extractors/interrupts.py *)

\* An Interrupt object wrapping a value.
Interrupt(value) == [shape |-> "object", type |-> "Interrupt", value |-> value]

HasAttr(obj, attr) == obj.shape = "object" /\ attr \in DOMAIN obj

\* The items of a list value ([] when the key or attribute is absent).
ListItems(x) == IF x.shape \in {"list", "tuple"} THEN x.items ELSE <<>>

_extract_from_interrupt_obj(obj) ==
    IF HasAttr(obj, "value") /\ obj.value.shape = "dict"
    THEN <<ListItems(DictGet(obj.value, "action_requests", PyList(<<>>))),
           ListItems(DictGet(obj.value, "review_configs", PyList(<<>>)))>>
    ELSE IF obj.shape = "dict"
    THEN <<ListItems(DictGet(obj, "action_requests", PyList(<<>>))),
           ListItems(DictGet(obj, "review_configs", PyList(<<>>)))>>
    ELSE <<IF HasAttr(obj, "action_requests")
           THEN ListItems(obj.action_requests) ELSE <<>>,
           IF HasAttr(obj, "review_configs")
           THEN ListItems(obj.review_configs) ELSE <<>> >>

\* (mutation) each element's lists replace the lists gathered so far.
AggregateInterrupts_Replace(objs) ==
    IF objs = <<>> THEN <<<<>>, <<>>>>
    ELSE _extract_from_interrupt_obj(objs[Len(objs)])

\* The aggregation loop: extend both lists with every element's lists.
RECURSIVE AggregateInterrupts(_)
AggregateInterrupts(objs) ==
    IF objs = <<>> THEN <<<<>>, <<>>>>
    ELSE LET h == _extract_from_interrupt_obj(Head(objs))
             t == AggregateInterrupts(Tail(objs))
         IN  <<h[1] \o t[1], h[2] \o t[2]>>

parse_interrupt_value(interrupt_value) ==
    IF interrupt_value.shape = "tuple"
    THEN LET items == interrupt_value.items IN
         IF Len(items) > 0 /\ HasAttr(items[1], "value")
         THEN AggregateInterrupts(items)
         ELSE IF Len(items) = 1 THEN _extract_from_interrupt_obj(items[1])
         ELSE IF Len(items) = 2
         THEN (IF items[1].shape = "list" /\ items[2].shape = "list"
               THEN <<items[1].items, items[2].items>>
               ELSE AggregateInterrupts(items))
         ELSE <<<<>>, <<>>>>
    ELSE IF interrupt_value.shape = "dict"
    THEN <<ListItems(DictGet(interrupt_value, "action_requests", PyList(<<>>))),
           ListItems(DictGet(interrupt_value, "review_configs", PyList(<<>>)))>>
    ELSE <<IF HasAttr(interrupt_value, "action_requests")
           THEN ListItems(interrupt_value.action_requests) ELSE <<>>,
           IF HasAttr(interrupt_value, "review_configs")
           THEN ListItems(interrupt_value.review_configs) ELSE <<>> >>

\* f"call_{index}" for the 0-based position of the action.
CallId(index) ==
    CASE index = 0 -> "call_0"
      [] index = 1 -> "call_1"
      [] index = 2 -> "call_2"
      [] OTHER -> "call_n"

serialize_action_request(action, index) ==
    LET get(key, default) ==
            IF action.shape = "dict" THEN DictGet(action, key, default)
            ELSE IF HasAttr(action, key) THEN action[key] ELSE default
        tool == get("tool", PyNone)
    IN  [tool |-> IF Truthy(tool) THEN tool ELSE get("name", PyNone),
         tool_call_id |-> get("tool_call_id",
                              PyName(CallId(index))),
         args |-> get("args", PyDict(<<>>)),
         description |-> get("description", PyNone)]

serialize_review_config(config) ==
    [allowed_decisions |->
        IF config.shape = "dict"
        THEN DictGet(config, "allowed_decisions", PyList(<<>>))
        ELSE IF HasAttr(config, "allowed_decisions")
        THEN config.allowed_decisions ELSE PyList(<<>>)]

\* The two list comprehensions of process_interrupt.
Serialized(action_requests, review_configs) ==
    [action_requests |->
        [i \in 1..Len(action_requests) |->
            serialize_action_request(action_requests[i], i - 1)],
     review_configs |->
        [i \in 1..Len(review_configs) |->
            serialize_review_config(review_configs[i])]]

\* parse_interrupt_value gives the pair (action_requests, review_configs).
Unpack(parsed) == Serialized(parsed[1], parsed[2])

process_interrupt(interrupt_value) ==
    Unpack(parse_interrupt_value(interrupt_value))

----------------------------------------------------------------------------
(* UpdatesHandler, handlers/updates.py.  A handler h is the record of its   *)
(* constructor arguments except the shared pending-tool-call dict, which is *)
(* threaded through: every method gives [events, pending, exc], the events  *)
(* yielded in order, the dict afterwards, and the exception that ended the  *)
(* generator (NoneV when it returned).                                     *)

\* snaps[i] is the pending dict at the yield of events[i], where the generator
\* is suspended until the consumer pulls again.  Events given to one Yield or
\* Raise are yielded with no assignment to the dict between them.
Yield(events, pending) ==
    [events |-> events, pending |-> pending, exc |-> NoneV,
     snaps |-> [i \in 1..Len(events) |-> pending]]
Raise(events, pending, exc) ==
    [events |-> events, pending |-> pending, exc |-> exc,
     snaps |-> [i \in 1..Len(events) |-> pending]]

\* "yield from" twice in a row: the events of first, then those of rest, which
\* ran on the dict first left.
\* (mutation) the later generator's events come out first.
YieldFrom_Reversed(first, rest) ==
    [events |-> rest.events \o first.events, pending |-> rest.pending,
     exc |-> rest.exc, snaps |-> rest.snaps \o first.snaps]

YieldFrom(first, rest) ==
    [events |-> first.events \o rest.events, pending |-> rest.pending,
     exc |-> rest.exc, snaps |-> first.snaps \o rest.snaps]

\* (mutation) d.setdefault(key, value): an entry the key has is kept.
DictSet_KeepOld(d, key, value) ==
    [k \in DOMAIN d \cup {key} |-> IF k \in DOMAIN d THEN d[k] ELSE value]

\* (mutation) the assignment is lost.
DictSet_Lost(d, key, value) == d

\* (mutation) the entry is read, not popped.
DictPop_Keep(d, key) == d

\* d[key] = value and d.pop(key, None) on the pending dict.
DictSet(d, key, value) ==
    [k \in DOMAIN d \cup {key} |-> IF k = key THEN value ELSE d[k]]
DictPop(d, key) == [k \in DOMAIN d \ {key} |-> d[k]]

\* bool(x) of a name or id attribute: None and "" are falsy.
NameTruthy(n) == n \notin {NoneV, ""}

UpdatesHandler(extractors, skip_tools, track_tool_lifecycle, include_state_updates, suppress_content) ==
    [extractors |-> extractors, skip_tools |-> skip_tools,
     track_tool_lifecycle |-> track_tool_lifecycle,
     include_state_updates |-> include_state_updates,
     suppress_content |-> suppress_content]

\* (mutation) the loop without the skip_tools test.
RECURSIVE StartToolCalls_NoSkip(_, _, _, _)
StartToolCalls_NoSkip(h, node_name, tool_calls, pending) ==
    IF tool_calls = <<>> THEN Yield(<<>>, pending)
    ELSE LET tc == Head(tool_calls)
             event == ToolCallStartEvent(tc.id, tc.name, tc.args, node_name)
             rest == StartToolCalls_NoSkip(h, node_name, Tail(tool_calls),
                                           DictSet(pending, tc.id, event))
         IN  YieldFrom(Yield(<<event>>, DictSet(pending, tc.id, event)), rest)

\* (mutation) the starts leave in the reverse of the tool_calls order.
RECURSIVE StartToolCalls_Reversed(_, _, _, _)
StartToolCalls_Reversed(h, node_name, tool_calls, pending) ==
    IF tool_calls = <<>> THEN Yield(<<>>, pending)
    ELSE LET tc == Head(tool_calls) IN
         IF tc.name \in h.skip_tools
         THEN StartToolCalls_Reversed(h, node_name, Tail(tool_calls), pending)
         ELSE LET event == ToolCallStartEvent(tc.id, tc.name, tc.args, node_name)
                  rest == StartToolCalls_Reversed(h, node_name, Tail(tool_calls),
                                                  DictSet(pending, tc.id, event))
              IN  YieldFrom(rest, Yield(<<event>>, rest.pending))

\* (mutation) the records of all the calls are stored before the first start
\* is yielded.
RECURSIVE StartToolCalls_StoreAllFirst(_, _, _, _)
StartToolCalls_StoreAllFirst(h, node_name, tool_calls, pending) ==
    IF tool_calls = <<>> THEN Yield(<<>>, pending)
    ELSE LET tc == Head(tool_calls) IN
         IF tc.name \in h.skip_tools
         THEN StartToolCalls_StoreAllFirst(h, node_name, Tail(tool_calls),
                                           pending)
         ELSE LET event == ToolCallStartEvent(tc.id, tc.name, tc.args, node_name)
                  rest == StartToolCalls_StoreAllFirst(
                              h, node_name, Tail(tool_calls),
                              DictSet(pending, tc.id, event))
              IN  YieldFrom(Yield(<<event>>, rest.pending), rest)

\* The loop over tool_calls of _process_ai_message.
RECURSIVE StartToolCalls(_, _, _, _)
StartToolCalls(h, node_name, tool_calls, pending) ==
    IF tool_calls = <<>> THEN Yield(<<>>, pending)
    ELSE LET tc == Head(tool_calls) IN
         IF tc.name \in h.skip_tools
         THEN StartToolCalls(h, node_name, Tail(tool_calls), pending)
         ELSE LET event == ToolCallStartEvent(tc.id, tc.name, tc.args, node_name)
                  rest == StartToolCalls(h, node_name, Tail(tool_calls),
                                         DictSet(pending, tc.id, event))
              IN  YieldFrom(Yield(<<event>>, DictSet(pending, tc.id, event)),
                            rest)

_process_ai_message(h, node_name, message, pending) ==
    LET tool_calls == extract_tool_calls(message)
        started == IF h.track_tool_lifecycle
                   THEN StartToolCalls(h, node_name, tool_calls, pending)
                   ELSE Yield(<<>>, pending)
        stripped == strip(extract_message_content(message))
        content == IF stripped # <<>> /\ tool_calls # <<>>
                   THEN clean_tool_dict_from_content(stripped)
                   ELSE stripped
        contentEvents ==
            IF ~h.suppress_content /\ content # <<>>
            THEN <<ContentEvent(content, "assistant", node_name)>>
            ELSE <<>>
        usage == message.usage_metadata
    IN  YieldFrom(
            started,
            IF usage.k = "none" THEN Yield(contentEvents, started.pending)
            ELSE IF usage.k = "dict_str"
            THEN Raise(contentEvents, started.pending, "TypeError")
            ELSE LET total_tokens == IF usage.total = -1
                                     THEN usage.input + usage.output
                                     ELSE usage.total
                 IN  IF total_tokens > 0
                     THEN Yield(contentEvents
                                \o <<UsageEvent(usage.input, usage.output,
                                                total_tokens, node_name)>>,
                                started.pending)
                     ELSE Yield(contentEvents, started.pending))

\* (mutation) human messages yield nothing.
_process_human_message_Silent(h, node_name, message, pending) ==
    Yield(<<>>, pending)

_process_human_message(h, node_name, message, pending) ==
    LET content == strip(extract_message_content(message)) IN
    IF h.suppress_content \/ content = <<>> THEN Yield(<<>>, pending)
    ELSE Yield(<<ContentEvent(content, "human", node_name)>>, pending)

\* (mutation) a duration is computed for every end.
Duration_Always(pending, tool_call_id) == "float"

\* duration_ms: computed when the popped start event exists.
Duration(pending, tool_call_id) ==
    IF tool_call_id \in DOMAIN pending THEN "float" ELSE "None"

\* (mutation) the end of a tool call that has no pending start is dropped.
EmitToolCallEnd_DropUnseen(h, message, pending) ==
    LET err == detect_tool_error(message) IN
    IF h.track_tool_lifecycle /\ message.tool_call_id \in DOMAIN pending
    THEN Yield(<<ToolCallEndEvent(
                    message.tool_call_id,
                    IF NameTruthy(message.name) THEN message.name ELSE "unknown",
                    message.content,
                    IF err.is_error THEN "error" ELSE "success",
                    err.error_message, "float")>>,
               DictPop(pending, message.tool_call_id))
    ELSE Yield(<<>>, pending)

\* (mutation) the end is emitted whether or not the lifecycle is tracked.
EmitToolCallEnd_Untracked(h, message, pending) ==
    IF NameTruthy(message.tool_call_id)
    THEN Yield(<<ToolCallEndEvent(
                    message.tool_call_id,
                    IF NameTruthy(message.name) THEN message.name ELSE "unknown",
                    message.content,
                    IF detect_tool_error(message).is_error
                    THEN "error" ELSE "success",
                    detect_tool_error(message).error_message,
                    Duration(pending, message.tool_call_id))>>,
               DictPop(pending, message.tool_call_id))
    ELSE Yield(<<>>, pending)

\* The last block of _process_tool_message: the ToolCallEndEvent, and the pop
\* of the pending start.
EmitToolCallEnd(h, message, pending) ==
    LET tool_name == message.name
        tool_call_id == message.tool_call_id
        err == detect_tool_error(message)
    IN  IF h.track_tool_lifecycle /\ NameTruthy(tool_call_id)
        THEN Yield(<<ToolCallEndEvent(
                        tool_call_id,
                        IF NameTruthy(tool_name) THEN tool_name ELSE "unknown",
                        message.content,
                        IF err.is_error THEN "error" ELSE "success",
                        err.error_message,
                        Duration(pending, tool_call_id))>>,
                   DictPop(pending, tool_call_id))
        ELSE Yield(<<>>, pending)

\* (mutation) an exception of the extractor leaves the handler.
_process_tool_message_Propagate(h, message, pending) ==
    IF message.name \in h.skip_tools THEN Yield(<<>>, pending)
    ELSE IF /\ NameTruthy(message.name)
            /\ message.name \in DOMAIN h.extractors
            /\ Extract(h.extractors[message.name],
                       IF message.artifact # PyNone THEN message.artifact
                       ELSE message.content).raised
    THEN Raise(<<>>, pending, "RuntimeError")
    ELSE YieldFrom(
             Yield(IF /\ NameTruthy(message.name)
                      /\ message.name \in DOMAIN h.extractors
                      /\ Extract(h.extractors[message.name],
                                 IF message.artifact # PyNone
                                 THEN message.artifact
                                 ELSE message.content).value # PyNone
                   THEN <<ToolExtractedEvent(
                              message.name,
                              h.extractors[message.name].extracted_type,
                              Extract(h.extractors[message.name],
                                      IF message.artifact # PyNone
                                      THEN message.artifact
                                      ELSE message.content).value)>>
                   ELSE <<>>,
                   pending),
             EmitToolCallEnd(h, message, pending))

\* (mutation) an empty artifact counts as no artifact.
_process_tool_message_TruthyArtifact(h, message, pending) ==
    LET tool_name == message.name
        content == message.content
        artifact == message.artifact
        hasExtractor == NameTruthy(tool_name) /\ tool_name \in DOMAIN h.extractors
        extracted == Extract(h.extractors[tool_name],
                             IF Truthy(artifact) THEN artifact ELSE content)
        extractedEvents ==
            IF hasExtractor /\ ~extracted.raised /\ extracted.value # PyNone
            THEN <<ToolExtractedEvent(tool_name,
                                      h.extractors[tool_name].extracted_type,
                                      extracted.value)>>
            ELSE <<>>
    IN  IF tool_name \in h.skip_tools THEN Yield(<<>>, pending)
        ELSE YieldFrom(Yield(extractedEvents, pending),
                       EmitToolCallEnd(h, message, pending))

_process_tool_message(h, message, pending) ==
    LET tool_name == message.name
        content == message.content
        artifact == message.artifact
        hasExtractor == NameTruthy(tool_name) /\ tool_name \in DOMAIN h.extractors
        extracted == Extract(h.extractors[tool_name],
                             IF artifact # PyNone THEN artifact ELSE content)
        extractedEvents ==
            IF hasExtractor /\ ~extracted.raised /\ extracted.value # PyNone
            THEN <<ToolExtractedEvent(tool_name,
                                      h.extractors[tool_name].extracted_type,
                                      extracted.value)>>
            ELSE <<>>
    IN  IF tool_name \in h.skip_tools THEN Yield(<<>>, pending)
        ELSE YieldFrom(Yield(extractedEvents, pending),
                       EmitToolCallEnd(h, message, pending))

\* (mutation) a message of another type is handled as a human message.
ProcessMessage_OtherAsHuman(h, node_name, message, pending) ==
    CASE get_message_type_name(message) = "ToolMessage" ->
           _process_tool_message(h, message, pending)
      [] get_message_type_name(message) \in {"AIMessage", "AIMessageChunk"} ->
           _process_ai_message(h, node_name, message, pending)
      [] OTHER -> _process_human_message(h, node_name, message, pending)

\* The body of the loop of _process_messages for one message.
ProcessMessage(h, node_name, message, pending) ==
    CASE get_message_type_name(message) = "ToolMessage" ->
           _process_tool_message(h, message, pending)
      [] get_message_type_name(message) \in {"AIMessage", "AIMessageChunk"} ->
           _process_ai_message(h, node_name, message, pending)
      [] get_message_type_name(message) = "HumanMessage" ->
           _process_human_message(h, node_name, message, pending)
      [] OTHER -> Yield(<<>>, pending)

\* The loop over the messages of _process_messages, entered with the result
\* of the messages before; a raising message ends it.
RECURSIVE ProcessMessageList(_, _, _, _)
ProcessMessageList(h, node_name, messages, done) ==
    IF messages = <<>> \/ done.exc # NoneV THEN done
    ELSE ProcessMessageList(
             h, node_name, Tail(messages),
             YieldFrom(done, ProcessMessage(h, node_name, Head(messages),
                                            done.pending)))

_process_messages(h, node_name, messages, pending) ==
    IF ~Truthy(messages) THEN Yield(<<>>, pending)
    ELSE ProcessMessageList(h, node_name,
                            IF messages.shape = "list" THEN messages.items
                            ELSE <<messages>>,
                            Yield(<<>>, pending))

\* The loop over the other state keys of _process_node_update.
RECURSIVE StateUpdates(_, _)
StateUpdates(node_name, items) ==
    IF items = <<>> THEN <<>>
    ELSE (IF Head(items).k # "messages"
          THEN <<StateUpdateEvent(node_name, Head(items).k, Head(items).v)>>
          ELSE <<>>)
         \o StateUpdates(node_name, Tail(items))

\* (mutation) the other state keys are yielded ahead of the node's messages.
OtherStateKeys_First(h, node_name, state_data, msgs) ==
    IF msgs.exc # NoneV \/ ~h.include_state_updates THEN msgs
    ELSE YieldFrom(Yield(StateUpdates(node_name, state_data.items),
                         msgs.pending),
                   msgs)

\* The second half of _process_node_update, after the messages key gave msgs.
OtherStateKeys(h, node_name, state_data, msgs) ==
    IF msgs.exc # NoneV \/ ~h.include_state_updates THEN msgs
    ELSE YieldFrom(msgs,
                   Yield(StateUpdates(node_name, state_data.items),
                         msgs.pending))

_process_node_update(h, node_name, state_data, pending) ==
    IF state_data.shape # "dict" THEN Yield(<<>>, pending)
    ELSE OtherStateKeys(
             h, node_name, state_data,
             IF HasKey(state_data, "messages")
                /\ Truthy(DictGet(state_data, "messages", PyNone))
             THEN _process_messages(h, node_name,
                      DictGet(state_data, "messages", PyNone), pending)
             ELSE Yield(<<>>, pending))

\* The loop over chunk.items() of process_chunk.
RECURSIVE ProcessNodes(_, _, _)
ProcessNodes(h, items, done) ==
    IF items = <<>> \/ done.exc # NoneV THEN done
    ELSE ProcessNodes(
             h, Tail(items),
             YieldFrom(done, _process_node_update(h, Head(items).k,
                                                  Head(items).v, done.pending)))

\* The InterruptEvent process_chunk yields for chunk["__interrupt__"].
InterruptOf(interrupt_data, raw_value) ==
    InterruptEvent(interrupt_data.action_requests,
                   interrupt_data.review_configs, raw_value)

\* (mutation) the node keys of an interrupt-bearing chunk are processed too.
UpdatesHandler_process_chunk_Continue(h, chunk, pending) ==
    IF chunk.shape # "dict" THEN Yield(<<>>, pending)
    ELSE IF HasKey(chunk, "__interrupt__")
    THEN ProcessNodes(h, chunk.items,
             Yield(<<InterruptOf(process_interrupt(
                                     DictGet(chunk, "__interrupt__", PyNone)),
                                 DictGet(chunk, "__interrupt__", PyNone))>>,
                   pending))
    ELSE ProcessNodes(h, chunk.items, Yield(<<>>, pending))

UpdatesHandler_process_chunk(h, chunk, pending) ==
    IF chunk.shape # "dict" THEN Yield(<<>>, pending)
    ELSE IF HasKey(chunk, "__interrupt__")
    THEN Yield(<<InterruptOf(process_interrupt(
                                 DictGet(chunk, "__interrupt__", PyNone)),
                             DictGet(chunk, "__interrupt__", PyNone))>>,
               pending)
    ELSE ProcessNodes(h, chunk.items, Yield(<<>>, pending))

----------------------------------------------------------------------------
(* MessagesHandler, handlers/messages.py *)

_process_ai_chunk(chunk, metadata) ==
    LET content == extract_message_content(chunk)
        node == IF metadata.shape = "dict"
                THEN DictGet(metadata, "langgraph_node", PyNone)
                ELSE PyNone
    IN  IF content = <<>> THEN <<>>
        ELSE <<ContentEvent(content, "assistant",
                            IF node.shape = "name" THEN node.v ELSE NoneV)>>

\* (mutation) the message's type is not tested.
MessagesHandler_process_chunk_AnyType(chunk, pending) ==
    IF chunk.shape = "tuple" /\ Len(chunk.items) = 2
    THEN Yield(_process_ai_chunk(chunk.items[1], chunk.items[2]), pending)
    ELSE Yield(_process_ai_chunk(chunk, PyDict(<<>>)), pending)

MessagesHandler_process_chunk(chunk, pending) ==
    LET isPair == chunk.shape = "tuple" /\ Len(chunk.items) = 2
        message == IF isPair THEN chunk.items[1] ELSE chunk
        metadata == IF isPair THEN chunk.items[2] ELSE PyDict(<<>>)
    IN  IF get_message_type_name(message) = "AIMessageChunk"
        THEN Yield(_process_ai_chunk(message, metadata), pending)
        ELSE Yield(<<>>, pending)

----------------------------------------------------------------------------
(* Inputs: the raw chunks a stream delivers *)

SkippedTools == {"hidden"}

aiText == AIMessage(PyStr(sPadded), <<>>, UsageDict(1, 2, -1))
aiCall == AIMessage(PyStr(<<>>), <<TC("c1", "search")>>, UsageNone)
aiCallHidden ==
    AIMessage(PyStr(<<>>), <<TC("c1", "hidden"), TC("c2", "think_tool")>>,
              UsageNone)
aiBadUsage == AIMessage(PyStr(sHi), <<TC("c2", "search")>>, UsageStrTotal)
toolOk == ToolMessage(PyStr(sOk), "search", "c1", NoneV, PyNone)
toolHidden == ToolMessage(PyStr(sOk), "hidden", "c1", NoneV, PyNone)
toolNoName == ToolMessage(PyStr(sErr), NoneV, "c1", NoneV, PyNone)
toolThink == ToolMessage(PyStr(sJsonRefl), "think_tool", "c2", NoneV, PyNone)
\* A think_tool result with nothing to extract.
toolThinkBlank ==
    ToolMessage(PyStr(<<" ">>), "think_tool", "c2", NoneV, PyNone)
human == HumanMessage(PyStr(sHi))
aiOk == AIMessage(PyStr(sOk), <<>>, UsageNone)

\* {node: {"messages": [...], "step": "1"}}
Update(node, messages) ==
    PyDict(<<[k |-> node,
              v |-> PyDict(<<[k |-> "messages", v |-> PyList(messages)],
                             [k |-> "step", v |-> PyName("1")]>>)]>>)

\* Two nodes whose state carries more than messages: the first has the
\* messages key between two other keys, the second has no messages.
stateChunk ==
    PyDict(<<[k |-> "agent",
              v |-> PyDict(<<[k |-> "step", v |-> PyName("1")],
                             [k |-> "messages", v |-> PyList(<<aiText>>)],
                             [k |-> "todos", v |-> PyList(<<>>)]>>)],
             [k |-> "tools",
              v |-> PyDict(<<[k |-> "count", v |-> PyName("1")]>>)]>>)

interruptValue ==
    PyTuple(<<Interrupt(PyDict(<<
        [k |-> "action_requests",
         v |-> PyList(<<PyDict(<<[k |-> "name", v |-> PyName("bash")]>>)>>)],
        [k |-> "review_configs",
         v |-> PyList(<<PyDict(<<>>)>>)]>>))>>)

interruptChunk ==
    PyDict(<<[k |-> "__interrupt__", v |-> interruptValue],
             [k |-> "agent",
              v |-> PyDict(<<[k |-> "messages", v |-> PyList(<<aiCall>>)]>>)]>>)

\* Two Interrupt wrappers, each with one action request and one review
\* config.
ActionRequest(name) == PyDict(<<[k |-> "name", v |-> PyName(name)]>>)

ReviewConfig(action_name) ==
    PyDict(<<[k |-> "action_name", v |-> PyName(action_name)]>>)

interruptTwo ==
    PyTuple(<<
        Interrupt(PyDict(<<
            [k |-> "action_requests", v |-> PyList(<<ActionRequest("bash")>>)],
            [k |-> "review_configs", v |-> PyList(<<ReviewConfig("bash")>>)]>>)),
        Interrupt(PyDict(<<
            [k |-> "action_requests", v |-> PyList(<<ActionRequest("edit")>>)],
            [k |-> "review_configs", v |-> PyList(<<ReviewConfig("edit")>>)]>>))>>)

interruptChunkTwo ==
    PyDict(<<[k |-> "agent",
              v |-> PyDict(<<[k |-> "messages", v |-> PyList(<<aiCall>>)]>>)],
             [k |-> "__interrupt__", v |-> interruptTwo]>>)

UpdateChunks ==
    {Update("agent", <<m>>) : m \in {aiCall, aiCallHidden, aiBadUsage}}
    \cup {Update("tools", <<m>>) :
        m \in {toolOk, toolHidden, toolNoName, toolThink}}
    \cup {Update("agent", <<aiCall, toolOk>>), interruptChunk,
          Update("agent", <<human, aiOk>>), stateChunk}

metadata == PyDict(<<[k |-> "langgraph_node", v |-> PyName("agent")]>>)

chunkHi == PyTuple(<<AIMessageChunk(PyStr(sHi), <<>>), metadata>>)

\* An AI chunk with text and tool calls, one with tool calls only, and one
\* that comes without metadata.
toolCallChunks ==
    [tool_call_chunks |-> <<[id |-> "c1", name |-> "search", args |-> "{"]>>]

chunkCall ==
    PyTuple(<<AIMessageChunk(PyStr(sHi), <<TC("c1", "search")>>)
                 @@ toolCallChunks,
              metadata>>)

chunkEmpty ==
    PyTuple(<<AIMessageChunk(PyStr(<<>>), <<TC("c1", "search")>>)
                 @@ toolCallChunks,
              PyDict(<<>>)>>)

bareChunk == AIMessageChunk(PyStr(sHi), <<>>)

\* A tool-call chunk whose content is the stringified tool-invocation dict.
chunkToolEcho ==
    PyTuple(<<AIMessageChunk(PyStr(<<ToolEcho>>), <<>>) @@ toolCallChunks,
              metadata>>)

MessageChunks ==
    {chunkHi, chunkCall, chunkEmpty, bareChunk,
     PyTuple(<<toolOk, metadata>>), PyTuple(<<human, metadata>>),
     PyTuple(<<aiText, metadata>>), chunkToolEcho}

\* (mode_name, data) envelopes of a multi-mode stream.
Envelope(mode_name, data) == PyTuple(<<PyName(mode_name), data>>)

EnvelopeChunks ==
    {Envelope("updates", Update("agent", <<m>>)) :
        m \in {aiText, aiCall, aiBadUsage, toolOk}}
    \cup {Envelope("messages", chunkHi),
          Envelope("values", Update("agent", <<aiText>>))}

\* Envelopes only a parser configured with a list of modes is given here.
ListChunks ==
    {Envelope("updates", interruptChunkTwo),
     Envelope("updates", Update("tools", <<toolThinkBlank>>)),
     Envelope("messages", chunkCall),
     Envelope("messages", chunkToolEcho)}

junk == PyName("junk")

\* What a raw stream delivers to a parser configured with stream_mode: the
\* chunks of that mode, and some chunks of the other shapes.
RawChunks(stream_mode) ==
    CASE stream_mode.kind = "list" ->
           EnvelopeChunks \cup ListChunks \cup {junk}
      [] stream_mode.v = "updates" -> UpdateChunks \cup {junk}
      [] stream_mode.v = "messages" ->
           MessageChunks \cup {Update("agent", <<aiCall>>)}
      [] OTHER ->
           {Envelope("updates", Update("agent", <<m>>)) :
               m \in {aiText, aiCall, toolOk}}
           \cup {Envelope("messages", chunkHi),
                 Envelope("values", Update("agent", <<aiText>>))}
           \cup {Update("agent", <<m>>) : m \in {aiText, aiCall, toolOk}}
           \cup {junk, chunkHi}

----------------------------------------------------------------------------
(* StreamParser, parser.py *)

_VALID_MODES == {"updates", "messages"}

\* stream_mode: a str or a list of str.
ModeStr(m) == [kind |-> "str", v |-> m]
ModeList(l) == [kind |-> "list", v |-> l]

\* The stream_mode arguments __init__ is called with: the four documented
\* ones, an unknown string, lists with an unknown string and with a list as
\* an element, a tuple and None.
ModeArguments ==
    {PyName("updates"), PyName("messages"), PyName("auto"),
     PyList(<<PyName("updates"), PyName("messages")>>),
     PyName("values"),
     PyList(<<PyName("updates"), PyName("values")>>),
     PyList(<<PyName("updates"), PyList(<<PyName("messages")>>)>>),
     PyTuple(<<PyName("updates"), PyName("messages")>>),
     PyNone}

\* hash(x) succeeds: membership in a set hashes the value first, and dicts
\* and lists, and tuples that hold one, are unhashable (TypeError).
RECURSIVE Hashable(_)
Hashable(x) ==
    CASE x.shape \in {"dict", "list"} -> FALSE
      [] x.shape = "tuple" -> \A i \in 1..Len(x.items) : Hashable(x.items[i])
      [] OTHER -> TRUE

\* The loop of _validate_stream_mode over the elements of a list: the
\* exception of the first offending element, None when there is none.
RECURSIVE ValidateList(_)
ValidateList(modes) ==
    IF modes = <<>> THEN NoneV
    ELSE IF ~Hashable(Head(modes)) THEN "TypeError"
    ELSE IF ~(Head(modes).shape = "name" /\ Head(modes).v \in _VALID_MODES)
    THEN "ValueError"
    ELSE ValidateList(Tail(modes))

\* _validate_stream_mode(stream_mode): the exception it raises, None when it
\* returns.
_validate_stream_mode(stream_mode) ==
    IF stream_mode.shape = "name"
    THEN (IF stream_mode.v \in _VALID_MODES \cup {"auto"} THEN NoneV
          ELSE "ValueError")
    ELSE IF stream_mode.shape = "list" THEN ValidateList(stream_mode.items)
    ELSE "ValueError"

\* The strings of a list of str.
RECURSIVE Strings(_)
Strings(items) ==
    IF items = <<>> THEN <<>> ELSE <<Head(items).v>> \o Strings(Tail(items))

\* self._stream_mode for an accepted argument.
ModeOf(stream_mode) ==
    IF stream_mode.shape = "name" THEN ModeStr(stream_mode.v)
    ELSE ModeList(Strings(stream_mode.items))

_is_multi_mode(chunk) ==
    /\ chunk.shape = "tuple"
    /\ Len(chunk.items) = 2
    /\ IsStr(chunk.items[1])
    /\ chunk.items[1].v \in _VALID_MODES

----------------------------------------------------------------------------
(* The attributes of an adapter, adapters/base.py and adapters/print.py *)

\* BaseAdapter.__init__ and PrintAdapter.__init__ with the default options
\* but verbose; stdout is what print() has written.
PrintAdapter(verbose) ==
    [_show_tool_args |-> TRUE, _max_content_preview |-> 200,
     _reflection_types |-> {"reflection"}, _todo_types |-> {"todos"},
     _display_items |-> <<>>, _current_role |-> NoneV,
     _current_content |-> <<>>, _tool_indices |-> <<>>,
     _interrupt |-> PyNone, _error |-> PyNone, _complete |-> FALSE,
     _verbose |-> verbose, _last_rendered_count |-> 0, stdout |-> <<>>]

\* No run() has been called.
NotRunning ==
    [pc |-> "idle", current_input |-> PyNone, decision |-> PyNone,
     calls |-> <<>>, updated |-> <<>>, seen |-> 0]

VARIABLES
    stream_mode,            \* the argument __init__ was called with
    _stream_mode,           \* configuration, set by __init__
    _track_tool_lifecycle,
    _skip_tools,
    _include_state_updates,
    _extractors,            \* tool name -> extractor
    _pending_tool_calls,    \* tool-call id -> ToolCallStartEvent
    api,                    \* the generator in progress: "parse" or "aparse"
    pc,                     \* its position: idle, peek, loop, done
    effective_mode,         \* local of parse()/aparse()
    head,                   \* chunks chained in front of the raw stream
    exhausted,              \* the raw stream has raised StopIteration
    out,                    \* events the generator has yielded so far
    last,                   \* the last call or step: [op, chunk, events, exc]
    delivered,              \* number of raw chunks handed to the parser
    started,                \* ids with a start yielded since the last reset()
                            \* and no end yielded after it
    closed,                 \* ids whose latest lifecycle event is an end
    raw,                    \* chunks the generator has pulled from the raw stream
    fed,                    \* chunks the generator has passed to a handler
    adapter,                \* a PrintAdapter: its attributes, and what it
                            \* has printed
    run                     \* BaseAdapter.run: its position, its local
                            \* current_input, the graph.stream calls made and
                            \* the events given to update()

vars == <<stream_mode, _stream_mode, _track_tool_lifecycle, _skip_tools,
          _include_state_updates, _extractors, _pending_tool_calls, api, pc,
          effective_mode, head, exhausted, out, last, delivered, started, closed,
          raw, fed, adapter, run>>

\* What no method of the parser assigns after __init__: its configuration,
\* and the adapter and its run loop, which read the parser's events only.
config == <<stream_mode, _stream_mode, _track_tool_lifecycle, _skip_tools,
            _include_state_updates, adapter, run>>

\* The record of a call or step: its input and outcome, and the lifecycle
\* sets and the pending dict as they were before it.
Last(op, chunk, events, exc) ==
    [op |-> op, chunk |-> chunk, events |-> events, exc |-> exc,
     started |-> started, closed |-> closed, pending |-> _pending_tool_calls]

EmptyDict == [k \in {} |-> CompleteEvent]

\* The ids with a yielded start and no yielded end after it, once events
\* have been yielded.
RECURSIVE Track(_, _)
Track(ids, events) ==
    IF events = <<>> THEN ids
    ELSE LET e == Head(events) IN
         Track(CASE e.type = "ToolCallStartEvent" -> ids \cup {e.id}
                 [] e.type = "ToolCallEndEvent" -> ids \ {e.id}
                 [] OTHER -> ids,
               Tail(events))

\* The ids whose latest lifecycle event is an end, once events have been
\* yielded.
RECURSIVE TrackClosed(_, _)
TrackClosed(ids, events) ==
    IF events = <<>> THEN ids
    ELSE LET e == Head(events) IN
         TrackClosed(CASE e.type = "ToolCallStartEvent" -> ids \ {e.id}
                       [] e.type = "ToolCallEndEvent" -> ids \cup {e.id}
                       [] OTHER -> ids,
                     Tail(events))

_register_builtin_extractors ==
    [n \in {"think_tool", "write_todos"} |->
        IF n = "think_tool" THEN ThinkToolExtractor ELSE TodoExtractor]

\* __init__: with an argument _validate_stream_mode rejects, the constructor
\* raises and there is no parser to call (pc = "raised").
StreamParser(mode, track_tool_lifecycle, skip_tools, include_state_updates) ==
    /\ stream_mode = mode
    /\ _stream_mode = IF _validate_stream_mode(stream_mode) = NoneV
                      THEN ModeOf(stream_mode) ELSE ModeStr(NoneV)
    /\ _track_tool_lifecycle = track_tool_lifecycle
    /\ _skip_tools = skip_tools
    /\ _include_state_updates = include_state_updates
    /\ _extractors = _register_builtin_extractors
    /\ _pending_tool_calls = EmptyDict
    /\ api = NoneV
    /\ pc = IF _validate_stream_mode(stream_mode) = NoneV THEN "idle"
            ELSE "raised"
    /\ effective_mode = ModeStr(NoneV)
    /\ head = <<>>
    /\ exhausted = FALSE
    /\ out = <<>>
    /\ last = [op |-> "__init__", chunk |-> PyNone, events |-> <<>>,
               exc |-> _validate_stream_mode(stream_mode), started |-> {},
               closed |-> {}, pending |-> EmptyDict]
    /\ delivered = 0
    /\ started = {}
    /\ closed = {}
    /\ raw = <<>>
    /\ fed = <<>>

\* An adapter that has been constructed and is not used.
IdleAdapter ==
    /\ adapter = PrintAdapter(FALSE)
    /\ run = NotRunning

Init ==
    /\ \E mode \in ModeArguments, track \in BOOLEAN, include \in BOOLEAN :
          StreamParser(mode, track, SkippedTools, include)
    /\ IdleAdapter

_create_updates_handler(suppress_content) ==
    UpdatesHandler(_extractors, _skip_tools, _track_tool_lifecycle,
                   _include_state_updates, suppress_content)

\* handler.process_chunk(chunk) of the handler _create_handler_for_mode gives.
_create_handler_for_mode(mode, suppress_content, chunk, pending) ==
    CASE mode = "updates" ->
           UpdatesHandler_process_chunk(
               _create_updates_handler(suppress_content), chunk, pending)
      [] mode = "messages" -> MessagesHandler_process_chunk(chunk, pending)
      [] OTHER -> Raise(<<>>, pending, "ValueError")

\* (mutation) the updates handler of multi mode is created without
\* suppress_content.
_parse_multi_mode_NoSuppress(chunk, pending) ==
    IF chunk.shape # "tuple" \/ Len(chunk.items) # 2 THEN Yield(<<>>, pending)
    ELSE LET mode_name == chunk.items[1]
             data == chunk.items[2]
         IN  IF IsStr(mode_name) /\ mode_name.v = "updates"
             THEN UpdatesHandler_process_chunk(
                      _create_updates_handler(FALSE), data, pending)
             ELSE IF IsStr(mode_name) /\ mode_name.v = "messages"
             THEN MessagesHandler_process_chunk(data, pending)
             ELSE Yield(<<>>, pending)

\* (mutation) a chunk that is no (mode_name, data) pair is unpacked all the
\* same, which raises.
_parse_multi_mode_Strict(chunk, pending) ==
    IF chunk.shape # "tuple" \/ Len(chunk.items) # 2
    THEN Raise(<<>>, pending, "ValueError")
    ELSE LET mode_name == chunk.items[1]
             data == chunk.items[2]
         IN  IF IsStr(mode_name) /\ mode_name.v = "updates"
             THEN UpdatesHandler_process_chunk(
                      _create_updates_handler(TRUE), data, pending)
             ELSE IF IsStr(mode_name) /\ mode_name.v = "messages"
             THEN MessagesHandler_process_chunk(data, pending)
             ELSE Yield(<<>>, pending)

\* (mutation) an envelope of a mode the parser was not configured for is
\* skipped.
_parse_multi_mode_Configured(chunk, pending) ==
    IF chunk.shape # "tuple" \/ Len(chunk.items) # 2 THEN Yield(<<>>, pending)
    ELSE LET mode_name == chunk.items[1]
             data == chunk.items[2]
             configured == {_stream_mode.v[i] : i \in 1..Len(_stream_mode.v)}
         IN  IF IsStr(mode_name) /\ mode_name.v = "updates"
                /\ "updates" \in configured
             THEN UpdatesHandler_process_chunk(
                      _create_updates_handler(TRUE), data, pending)
             ELSE IF IsStr(mode_name) /\ mode_name.v = "messages"
                     /\ "messages" \in configured
             THEN MessagesHandler_process_chunk(data, pending)
             ELSE Yield(<<>>, pending)

\* One iteration of the loop of _parse_multi_mode.
_parse_multi_mode(chunk, pending) ==
    IF chunk.shape # "tuple" \/ Len(chunk.items) # 2 THEN Yield(<<>>, pending)
    ELSE LET mode_name == chunk.items[1]
             data == chunk.items[2]
         IN  IF IsStr(mode_name) /\ mode_name.v = "updates"
             THEN UpdatesHandler_process_chunk(
                      _create_updates_handler(TRUE), data, pending)
             ELSE IF IsStr(mode_name) /\ mode_name.v = "messages"
             THEN MessagesHandler_process_chunk(data, pending)
             ELSE Yield(<<>>, pending)

\* (mutation) the asynchronous loop ignores the messages channel.
_aparse_multi_mode_NoMessages(chunk, pending) ==
    IF chunk.shape # "tuple" \/ Len(chunk.items) # 2 THEN Yield(<<>>, pending)
    ELSE IF IsStr(chunk.items[1]) /\ chunk.items[1].v = "updates"
    THEN UpdatesHandler_process_chunk(
             _create_updates_handler(TRUE), chunk.items[2], pending)
    ELSE Yield(<<>>, pending)

\* One iteration of the loop of _aparse_multi_mode.
_aparse_multi_mode(chunk, pending) ==
    IF chunk.shape # "tuple" \/ Len(chunk.items) # 2 THEN Yield(<<>>, pending)
    ELSE LET mode_name == chunk.items[1]
             data == chunk.items[2]
         IN  IF IsStr(mode_name) /\ mode_name.v = "updates"
             THEN UpdatesHandler_process_chunk(
                      _create_updates_handler(TRUE), data, pending)
             ELSE IF IsStr(mode_name) /\ mode_name.v = "messages"
             THEN MessagesHandler_process_chunk(data, pending)
             ELSE Yield(<<>>, pending)

\* (mutation) detection never finds a multi-mode stream.
_peek_and_detect_AlwaysUpdates(first_chunk) == ModeStr("updates")

\* _peek_and_detect / _apeek_and_detect on a first chunk.
_peek_and_detect(first_chunk) ==
    IF _is_multi_mode(first_chunk) THEN ModeList(<<"updates", "messages">>)
    ELSE ModeStr("updates")

_apeek_and_detect(first_chunk) ==
    IF _is_multi_mode(first_chunk) THEN ModeList(<<"updates", "messages">>)
    ELSE ModeStr("updates")

\* (mutation) the CompleteEvent is yielded in a finally clause.
ExceptClause_ThenComplete(exc) ==
    <<ErrorEvent(<<"Error parsing stream: ", exc>>, exc), CompleteEvent>>

\* (mutation) the exception is swallowed without an event.
ExceptClause_Silent(exc) == <<>>

\* What the except clause of parse()/aparse() yields before the generator
\* ends.
ExceptClause(exc) == <<ErrorEvent(<<"Error parsing stream: ", exc>>, exc)>>

\* (mutation) no terminal event on an empty output.
OnExhausted_Nothing == <<>>

\* What parse()/aparse() yield once the loop has ended normally.
OnExhausted == <<CompleteEvent>>

----------------------------------------------------------------------------
(* Calls and generator steps *)

\* Calling parse(stream) or aparse(stream) creates a generator on a fresh raw
\* stream; its body runs on the consumer's pulls.
\* (mutation) a new generator starts from an empty pending dict.
Begin_Fresh(a) ==
    /\ pc \in {"idle", "done"}
    /\ api' = a
    /\ pc' = IF _stream_mode = ModeStr("auto") THEN "peek" ELSE "loop"
    /\ effective_mode' = IF _stream_mode = ModeStr("auto") THEN ModeStr(NoneV)
                         ELSE _stream_mode
    /\ head' = <<>>
    /\ exhausted' = FALSE
    /\ out' = <<>>
    /\ raw' = <<>>
    /\ fed' = <<>>
    /\ last' = Last(a, PyNone, <<>>, NoneV)
    /\ _pending_tool_calls' = EmptyDict
    /\ UNCHANGED <<config, _extractors, delivered, started, closed>>

\* The generator object of a call: nothing of its body has run.
Generator(a) ==
    /\ pc \in {"idle", "done"}
    /\ api' = a
    /\ pc' = IF _stream_mode = ModeStr("auto") THEN "peek" ELSE "loop"
    /\ effective_mode' = IF _stream_mode = ModeStr("auto") THEN ModeStr(NoneV)
                         ELSE _stream_mode
    /\ head' = <<>>
    /\ exhausted' = FALSE
    /\ out' = <<>>
    /\ raw' = <<>>
    /\ fed' = <<>>
    /\ last' = Last(a, PyNone, <<>>, NoneV)
    /\ UNCHANGED <<_extractors, _pending_tool_calls, delivered, started, closed>>

Begin(a) ==
    /\ Generator(a)
    /\ UNCHANGED config

parse == Begin("parse")

aparse == Begin("aparse")

\* (mutation) the peeked chunk is not chained back.
chain_Lost(first_chunk) == <<>>

\* (mutation) the peeked chunk is chained back twice.
chain_Twice(first_chunk) == <<first_chunk, first_chunk>>

\* chain([first_chunk], stream) and _async_chain(first_chunk, stream): what
\* comes in front of the rest of the raw stream.
chain(first_chunk) == <<first_chunk>>

_async_chain(first) == <<first>>

\* effective_mode == "auto": the first chunk is taken from the raw stream and
\* chained back in front of it.
Peek(a) ==
    /\ pc = "peek"
    /\ api = a
    /\ \/ \E first_chunk \in RawChunks(_stream_mode) :
            /\ delivered < MaxChunks
            /\ delivered' = delivered + 1
            /\ effective_mode' = IF a = "parse"
                                 THEN _peek_and_detect(first_chunk)
                                 ELSE _apeek_and_detect(first_chunk)
            /\ head' = IF a = "parse" THEN chain(first_chunk)
                       ELSE _async_chain(first_chunk)
            /\ raw' = Append(raw, first_chunk)
            /\ pc' = "loop"
            /\ last' = Last("peek", first_chunk, <<>>, NoneV)
            /\ UNCHANGED <<exhausted, out>>
       \/ /\ effective_mode' = ModeStr("updates")
          /\ exhausted' = TRUE
          /\ pc' = "loop"
          /\ last' = Last("peek", PyNone, <<>>, "StopIteration")
          /\ UNCHANGED <<head, out, delivered, raw>>
       \/ /\ out' = out \o ExceptClause("StreamError")
          /\ pc' = "done"
          /\ last' = Last("peek", PyNone, ExceptClause("StreamError"), "StreamError")
          /\ UNCHANGED <<effective_mode, head, exhausted, delivered, raw>>
    /\ UNCHANGED <<config, _extractors, _pending_tool_calls, api, started, closed,
                   fed>>

parse_peek == Peek("parse")

aparse_peek == Peek("aparse")

\* The body of the loop for one chunk, up to the next pull: the handler's
\* events are yielded; an exception ends the generator with one ErrorEvent.
Yielded(r) == r.events \o (IF r.exc # NoneV THEN ExceptClause(r.exc) ELSE <<>>)

Resume(chunk, r) ==
    /\ out' = out \o Yielded(r)
    /\ _pending_tool_calls' = r.pending
    /\ started' = Track(started, r.events)
    /\ closed' = TrackClosed(closed, r.events)
    /\ pc' = IF r.exc # NoneV THEN "done" ELSE "loop"
    /\ fed' = Append(fed, chunk)
    /\ last' = Last("chunk", chunk, Yielded(r), r.exc)

\* (mutation) in auto mode an envelope is routed as one whatever the first
\* chunk was.
Handled_Redetect(a, chunk) ==
    IF effective_mode.kind = "list"
       \/ (_stream_mode = ModeStr("auto") /\ _is_multi_mode(chunk))
    THEN (IF a = "parse"
          THEN _parse_multi_mode(chunk, _pending_tool_calls)
          ELSE _aparse_multi_mode(chunk, _pending_tool_calls))
    ELSE _create_handler_for_mode(effective_mode.v, FALSE, chunk,
                                  _pending_tool_calls)

\* The generator the loop body runs on one chunk.
Handled(a, chunk) ==
    IF effective_mode.kind = "list"
    THEN (IF a = "parse"
          THEN _parse_multi_mode(chunk, _pending_tool_calls)
          ELSE _aparse_multi_mode(chunk, _pending_tool_calls))
    ELSE _create_handler_for_mode(effective_mode.v, FALSE, chunk,
                                  _pending_tool_calls)

Process(a, chunk) == Resume(chunk, Handled(a, chunk))

\* One pull of the loop "for chunk in stream": a chained chunk first, then
\* what the raw stream does: a chunk, StopIteration, or an exception.
Pull(a, chunks) ==
    /\ head = <<>>
    /\ ~exhausted
    /\ delivered < MaxChunks
    /\ \E chunk \in chunks :
          /\ Process(a, chunk)
          /\ raw' = Append(raw, chunk)
    /\ delivered' = delivered + 1
    /\ UNCHANGED <<head, exhausted>>

StopIteration ==
    /\ head = <<>>
    /\ out' = out \o OnExhausted
    /\ exhausted' = TRUE
    /\ pc' = "done"
    /\ last' = Last("stop", PyNone, OnExhausted, NoneV)
    /\ UNCHANGED <<head, delivered, _pending_tool_calls, started, closed,
                   raw, fed>>

StreamRaises ==
    /\ head = <<>>
    /\ ~exhausted
    /\ out' = out \o ExceptClause("StreamError")
    /\ pc' = "done"
    /\ last' = Last("raise", PyNone, ExceptClause("StreamError"), "StreamError")
    /\ UNCHANGED <<head, exhausted, delivered, _pending_tool_calls, started,
                   closed, raw, fed>>

LoopStep(a) ==
    /\ pc = "loop"
    /\ api = a
    /\ \/ /\ head # <<>>
          /\ Process(a, Head(head))
          /\ head' = Tail(head)
          /\ UNCHANGED <<exhausted, delivered, raw>>
       \/ Pull(a, RawChunks(_stream_mode))
       \/ StopIteration
       \/ StreamRaises
    /\ UNCHANGED <<config, _extractors, api, effective_mode>>

parse_next == LoopStep("parse")

aparse_next == LoopStep("aparse")

\* A finished generator is dropped by the caller's next call.
DropFinished ==
    IF pc = "done"
    THEN /\ api' = NoneV
         /\ pc' = "idle"
         /\ effective_mode' = ModeStr(NoneV)
         /\ exhausted' = FALSE
         /\ out' = <<>>
         /\ raw' = <<>>
         /\ fed' = <<>>
         /\ UNCHANGED head
    ELSE UNCHANGED <<api, pc, effective_mode, head, exhausted, out, raw, fed>>

\* (mutation) parse_chunk closes its list with a CompleteEvent.
Return_Complete(chunk, r) ==
    /\ last' = Last("parse_chunk", chunk,
                    IF r.exc = NoneV THEN r.events \o <<CompleteEvent>>
                    ELSE <<>>, r.exc)
    /\ _pending_tool_calls' = r.pending
    /\ started' = Track(started, r.events)
    /\ closed' = TrackClosed(closed, r.events)

\* The return of parse_chunk: list(handler.process_chunk(...)) runs the
\* handler to its end; the list is lost when the handler raises.
Return(chunk, r) ==
    /\ last' = Last("parse_chunk", chunk,
                    IF r.exc = NoneV THEN r.events ELSE <<>>, r.exc)
    /\ _pending_tool_calls' = r.pending
    /\ started' = Track(started, r.events)
    /\ closed' = TrackClosed(closed, r.events)

\* parse_chunk(chunk): the list of events of one chunk; it raises ValueError
\* in auto mode, and lets a handler's exception through.
parse_chunk_from(chunks) ==
    /\ pc \in {"idle", "done"}
    /\ delivered < MaxChunks
    /\ delivered' = delivered + 1
    /\ \E chunk \in chunks :
          IF _stream_mode = ModeStr("auto")
          THEN /\ last' = Last("parse_chunk", chunk, <<>>, "ValueError")
               /\ UNCHANGED <<_pending_tool_calls, started, closed>>
          ELSE Return(chunk,
                      IF _stream_mode.kind = "list" /\ ~_is_multi_mode(chunk)
                      THEN Yield(<<>>, _pending_tool_calls)
                      ELSE _create_handler_for_mode(
                               IF _stream_mode.kind = "list"
                               THEN chunk.items[1].v ELSE _stream_mode.v,
                               _stream_mode.kind = "list"
                                  /\ chunk.items[1].v = "updates",
                               IF _stream_mode.kind = "list"
                               THEN chunk.items[2] ELSE chunk,
                               _pending_tool_calls))
    /\ DropFinished
    /\ UNCHANGED <<config, _extractors>>

parse_chunk == parse_chunk_from(RawChunks(_stream_mode))

\* (mutation) reset() runs the initialisation of __init__ again.
reset_Reinit ==
    /\ pc # "raised"
    /\ _pending_tool_calls' = EmptyDict
    /\ _extractors' = _register_builtin_extractors
    /\ started' = {}
    /\ last' = Last("reset", PyNone, <<>>, NoneV)
    /\ DropFinished
    /\ UNCHANGED <<config, delivered, closed>>

reset ==
    /\ pc # "raised"
    /\ _pending_tool_calls' = EmptyDict
    /\ started' = {}
    /\ last' = Last("reset", PyNone, <<>>, NoneV)
    /\ DropFinished
    /\ UNCHANGED <<config, _extractors, delivered, closed>>

\* The extractors a caller registers in this model.
Registrable == {CustomExtractor("hidden"), RaisingExtractor("think_tool")}

register_extractor ==
    /\ pc \in {"idle", "done"}
    /\ \E extractor \in Registrable :
          /\ _extractors' = DictSet(_extractors, extractor.tool_name, extractor)
          /\ last' = Last("register_extractor", extractor, <<>>, NoneV)
    /\ DropFinished
    /\ UNCHANGED <<config, _pending_tool_calls, delivered, started, closed>>

unregister_extractor ==
    /\ pc \in {"idle", "done"}
    /\ \E tool_name \in {"hidden"} :
          /\ _extractors' = DictPop(_extractors, tool_name)
          /\ last' = Last("unregister_extractor", PyName(tool_name), <<>>,
                          NoneV)
    /\ DropFinished
    /\ UNCHANGED <<config, _pending_tool_calls, delivered, started, closed>>

Next ==
    \/ parse
    \/ aparse
    \/ parse_peek
    \/ aparse_peek
    \/ parse_next
    \/ aparse_next
    \/ parse_chunk
    \/ reset
    \/ register_extractor
    \/ unregister_extractor

Spec == Init /\ [][Next]_vars

-----------------------------------------------------------------------------
(* Tool results, as detect_tool_error reads them *)

\* The contents of the tool results: plain text, text with an error prefix
\* (as it is, and padded in upper case), text with the prefix further in, no
\* text, and dicts with a truthy, a falsy and no "error" key.
ToolResultContents ==
    {PyStr(sOk), PyStr(sErr), PyStr(sFailed), PyStr(sNoError),
     PyStr(sTraceback), PyStr(<<>>),
     PyDict(<<[k |-> "error", v |-> PyStr(sBoom)]>>),
     PyDict(<<[k |-> "error", v |-> PyStr(<<>>)]>>),
     PyDict(<<[k |-> "result", v |-> PyStr(sOk)]>>)}

ToolResults ==
    {ToolMessage(content, "search", "c1", status, PyNone) :
        content \in ToolResultContents, status \in {NoneV, "error", "success"}}

\* The results of display_inline: the full data as the artifact beside a
\* stub content, and as JSON content without artifact.
aiCallDisplay ==
    AIMessage(PyStr(<<>>), <<TC("c1", "display_inline")>>, UsageNone)

toolDisplayArtifact ==
    ToolMessage(PyStr(sOk), "display_inline", "c1", NoneV,
                PyDict(<<[k |-> "type", v |-> PyName("display_inline")],
                         [k |-> "display_type", v |-> PyName("dataframe")],
                         [k |-> "title", v |-> PyStr(sHi)]>>))

toolDisplayContent ==
    ToolMessage(PyStr(sJsonDisplay), "display_inline", "c1", NoneV, PyNone)

\* The chunks of a node that calls a tool and gets its result.
ToolResultChunks(mode) ==
    IF mode.kind = "list"
    THEN {Envelope("updates", Update("agent", <<aiCall, m>>)) : m \in ToolResults}
         \cup {Envelope("updates", Update("agent", <<aiCallDisplay, m>>)) :
                  m \in {toolDisplayArtifact, toolDisplayContent}}
    ELSE {Update("agent", <<aiCall, m>>) : m \in ToolResults}
         \cup {Update("agent", <<aiCallDisplay, m>>) :
                  m \in {toolDisplayArtifact, toolDisplayContent}}

\* parse_chunk on the chunks of tool results.
parse_tool_result == parse_chunk_from(ToolResultChunks(_stream_mode))

SpecToolResult == Init /\ [][parse_tool_result]_vars

-----------------------------------------------------------------------------
(* One message per chunk: the order of the events of a message *)

\* AI messages: no text, padded text or plain text; no tool call, one, a
\* skipped one, or three of which the second is skipped; no usage, a usage
\* with tokens, one with none, or one whose total is a string.
OrderToolCalls ==
    {<<>>, <<TC("c1", "search")>>, <<TC("c2", "hidden")>>,
     <<TC("c1", "search"), TC("c2", "hidden"), TC("c3", "think_tool")>>}

OrderAIMessages ==
    {AIMessage(PyStr(c), tcs, u) :
        c \in {<<>>, sPadded, sHi}, tcs \in OrderToolCalls,
        u \in {UsageNone, UsageDict(1, 2, -1), UsageDict(0, 0, 0),
               UsageStrTotal}}

\* Results of think_tool (it has a built-in extractor), of a tool without
\* extractor and of a skipped tool: JSON text, plain text or no text as the
\* content; no artifact, a dict with or without a reflection, or a string.
reflectionArtifact == PyDict(<<[k |-> "reflection", v |-> PyStr(<<"A">>)]>>)

OrderToolMessages ==
    {ToolMessage(PyStr(c), name, "c3", NoneV, a) :
        c \in {sJsonRefl, sOk, <<>>},
        name \in {"think_tool", "search", "hidden"},
        a \in {PyNone, reflectionArtifact, PyDict(<<>>), PyStr(sHi)}}

OrderChunks(mode) ==
    IF mode.kind = "list"
    THEN {Envelope("updates", Update("agent", <<m>>)) :
             m \in OrderAIMessages \cup OrderToolMessages}
    ELSE {Update("agent", <<m>>) : m \in OrderAIMessages \cup OrderToolMessages}

\* parse_chunk on chunks of one message.
parse_message == parse_chunk_from(OrderChunks(_stream_mode))

SpecMessage == Init /\ [][parse_message]_vars

-----------------------------------------------------------------------------
(* compat.py *)

Item(key, value) == [k |-> key, v |-> value]

\* The legacy dict of an event, None for an event without one.
_event_to_dict(event) ==
    CASE event.type = "ContentEvent" ->
           PyDict(<<Item("chunk", PyStr(event.content)),
                    Item("status", PyName("streaming"))>>
                  \o (IF NameTruthy(event.node)
                      THEN <<Item("node", PyName(event.node))>> ELSE <<>>))
      [] event.type = "ToolCallStartEvent" ->
           PyDict(<<Item("tool_calls",
                         PyList(<<PyDict(<<Item("id", PyName(event.id)),
                                           Item("name", PyName(event.name)),
                                           Item("args", PyName(event.args))>>)>>)),
                    Item("status", PyName("streaming"))>>
                  \o (IF NameTruthy(event.node)
                      THEN <<Item("node", PyName(event.node))>> ELSE <<>>))
      [] event.type = "ToolCallEndEvent" -> PyNone
      [] event.type = "ToolExtractedEvent" ->
           (IF event.extracted_type = "reflection"
            THEN PyDict(<<Item("chunk", event.data),
                          Item("status", PyName("streaming"))>>)
            ELSE IF event.extracted_type = "todos"
            THEN PyDict(<<Item("todo_list", event.data),
                          Item("status", PyName("streaming"))>>)
            ELSE PyDict(<<Item("extracted",
                               PyDict(<<Item("tool", PyName(event.tool_name)),
                                        Item("type", PyName(event.extracted_type)),
                                        Item("data", event.data)>>)),
                          Item("status", PyName("streaming"))>>))
      [] event.type = "InterruptEvent" ->
           PyDict(<<Item("interrupt",
                         PyDict(<<Item("action_requests", event.action_requests),
                                  Item("review_configs", event.review_configs)>>)),
                    Item("status", PyName("interrupt"))>>)
      [] event.type = "CompleteEvent" ->
           PyDict(<<Item("status", PyName("complete"))>>)
      [] event.type = "ErrorEvent" ->
           PyDict(<<Item("error", PyStr(event.error)),
                    Item("status", PyName("error"))>>)
      [] OTHER -> PyNone

\* What stream_graph_updates has yielded once parse() has yielded events:
\* the dicts of the events that have one, in order.
RECURSIVE stream_graph_updates_yielded(_)
stream_graph_updates_yielded(events) ==
    IF events = <<>> THEN <<>>
    ELSE (IF _event_to_dict(Head(events)) # PyNone
          THEN <<_event_to_dict(Head(events))>> ELSE <<>>)
         \o stream_graph_updates_yielded(Tail(events))

\* skip_tools of the parser stream_graph_updates constructs.
CompatSkipTools == {"think_tool", "write_todos"}

\* An agent that writes todos: the call and its result, a list of todos as
\* JSON text.
aiCallTodos == AIMessage(PyStr(<<>>), <<TC("c3", "write_todos")>>, UsageNone)
toolTodos == ToolMessage(PyStr(sJsonTodos), "write_todos", "c3", NoneV, PyNone)

AgentUpdates ==
    {Update("agent", <<m>>) : m \in {aiText, aiCall, aiCallTodos}}
    \cup {Update("tools", <<m>>) : m \in {toolOk, toolTodos, toolThink}}
    \cup {interruptChunk}

\* What agent.stream(input_data, config=config, stream_mode=stream_mode)
\* delivers.
AgentChunks(mode) ==
    IF mode.kind = "list"
    THEN {Envelope("updates", c) : c \in AgentUpdates}
         \cup {Envelope("messages", chunkHi)}
    ELSE IF mode.v = "updates" THEN AgentUpdates
    ELSE {chunkHi, chunkCall}

\* The parser of stream_graph_updates, for the stream modes that the agent
\* and the parser both take.
InitCompat ==
    /\ \E mode \in {PyName("updates"), PyName("messages"),
                    PyList(<<PyName("updates"), PyName("messages")>>)} :
          StreamParser(mode, TRUE, CompatSkipTools, FALSE)
    /\ IdleAdapter

\* The call: the generator of parser.parse(stream) is created.
stream_graph_updates ==
    /\ pc = "idle"
    /\ Begin("parse")

\* One pull of "for event in parser.parse(stream)", up to the next chunk.
stream_graph_updates_next ==
    /\ pc = "loop"
    /\ api = "parse"
    /\ \/ Pull("parse", AgentChunks(_stream_mode))
       \/ StopIteration
       \/ StreamRaises
    /\ UNCHANGED <<config, _extractors, api, effective_mode>>

NextCompat ==
    \/ stream_graph_updates
    \/ stream_graph_updates_next

SpecCompat == InitCompat /\ [][NextCompat]_vars

-----------------------------------------------------------------------------
(* Parsers configured with a list of modes *)

\* An AI message with text, usage and two tool calls, and the result of the
\* second call, which has an extractor.
aiCalls ==
    AIMessage(PyStr(sHi), <<TC("c1", "search"), TC("c3", "think_tool")>>,
              UsageDict(1, 2, -1))
toolThinkC3 ==
    ToolMessage(PyStr(sJsonRefl), "think_tool", "c3", NoneV, PyNone)

\* The lists __init__ accepts: every element is "updates" or "messages"; the
\* empty list has no element to reject.
ListModes ==
    {PyList(<<>>), PyList(<<PyName("updates")>>),
     PyList(<<PyName("messages")>>),
     PyList(<<PyName("updates"), PyName("messages")>>)}

\* Envelopes of both known modes and of an unknown one, and a chunk that is
\* no envelope.
ListModeChunks ==
    {Envelope("updates", Update("agent", <<m>>)) : m \in {aiCalls, aiText}}
    \cup {Envelope("updates", Update("tools", <<toolOk>>)),
          Envelope("updates", interruptChunk),
          Envelope("messages", chunkHi), Envelope("messages", chunkCall),
          Envelope("values", Update("agent", <<aiText>>)), junk}

InitListModes ==
    /\ \E mode \in ListModes, track \in BOOLEAN :
          StreamParser(mode, track, SkippedTools, FALSE)
    /\ IdleAdapter

\* One pull of the loop of _parse_multi_mode or _aparse_multi_mode.
list_next(a) ==
    /\ pc = "loop"
    /\ api = a
    /\ \/ Pull(a, ListModeChunks)
       \/ StopIteration
       \/ StreamRaises
    /\ UNCHANGED <<config, _extractors, api, effective_mode>>

parse_list_chunk == parse_chunk_from(ListModeChunks)

NextListModes ==
    \/ parse
    \/ aparse
    \/ list_next("parse")
    \/ list_next("aparse")
    \/ parse_list_chunk

SpecListModes == InitListModes /\ [][NextListModes]_vars

-----------------------------------------------------------------------------
(* Malformed updates chunks *)

systemMessage ==
    Msg("SystemMessage", PyStr(sHi), <<>>, NoneV, NoneV, NoneV, PyNone,
        UsageNone)

Node(node, state_data) == PyDict(<<[k |-> node, v |-> state_data]>>)

\* Chunks that are no dict; nodes whose value is no dict; nodes without
\* messages, or with None, an empty list or an empty string as messages;
\* messages of a type that is none of AI, Tool and Human, in a list or alone.
MalformedChunks ==
    {junk, PyNone, PyList(<<Update("agent", <<aiCall>>)>>),
     PyTuple(<<PyName("updates"), Update("agent", <<aiCall>>)>>)}
    \cup {Node("agent", v) :
             v \in {PyNone, PyName("1"), PyList(<<aiCall>>),
                    PyDict(<<[k |-> "step", v |-> PyName("1")]>>)}}
    \cup {Node("agent", PyDict(<<[k |-> "messages", v |-> m],
                                 [k |-> "step", v |-> PyName("1")]>>)) :
             m \in {PyNone, PyList(<<>>), PyStr(<<>>), systemMessage,
                    PyList(<<systemMessage, PyStr(sHi)>>)}}

MalformedStreamChunks ==
    MalformedChunks
    \cup {Update("agent", <<aiCall>>), Update("tools", <<toolOk>>),
          Update("agent", <<aiText>>)}

InitMalformed ==
    /\ \E track \in BOOLEAN, include \in BOOLEAN :
          StreamParser(PyName("updates"), track, SkippedTools, include)
    /\ IdleAdapter

malformed_next ==
    /\ pc = "loop"
    /\ api = "parse"
    /\ \/ Pull("parse", MalformedStreamChunks)
       \/ StopIteration
       \/ StreamRaises
    /\ UNCHANGED <<config, _extractors, api, effective_mode>>

parse_malformed_chunk == parse_chunk_from(MalformedStreamChunks)

NextMalformed ==
    \/ parse
    \/ malformed_next
    \/ parse_malformed_chunk

SpecMalformed == InitMalformed /\ [][NextMalformed]_vars

-----------------------------------------------------------------------------
(* A consumer that stops pulling *)

LifecycleUpdates ==
    {Update("agent", <<aiCalls>>), Update("agent", <<aiCall>>),
     Update("tools", <<toolOk>>), Update("tools", <<toolThinkC3>>),
     Update("agent", <<aiCall, toolOk>>)}

LifecycleChunks(mode) ==
    IF mode.kind = "list"
    THEN {Envelope("updates", u) : u \in LifecycleUpdates}
    ELSE LifecycleUpdates

InitLifecycle ==
    /\ \E mode \in {PyName("updates"),
                    PyList(<<PyName("updates"), PyName("messages")>>)},
          track \in BOOLEAN :
          StreamParser(mode, track, SkippedTools, FALSE)
    /\ IdleAdapter

\* One pull of the loop of parse() or aparse() on the lifecycle chunks.
lifecycle_next(a) ==
    /\ pc = "loop"
    /\ api = a
    /\ \/ Pull(a, LifecycleChunks(_stream_mode))
       \/ StopIteration
       \/ StreamRaises
    /\ UNCHANGED <<config, _extractors, api, effective_mode>>

\* The consumer takes the first j events of a chunk and pulls no more: the
\* generator stays suspended at the yield of event j until it is closed or
\* collected, which raises GeneratorExit at that yield; "except Exception"
\* does not catch it, and nothing more of the body runs.
AbandonAfter(chunk, r, j) ==
    /\ out' = out \o SubSeq(r.events, 1, j)
    /\ _pending_tool_calls' = r.snaps[j]
    /\ started' = Track(started, SubSeq(r.events, 1, j))
    /\ closed' = TrackClosed(closed, SubSeq(r.events, 1, j))
    /\ raw' = Append(raw, chunk)
    /\ fed' = Append(fed, chunk)
    /\ last' = Last("abandon", chunk, SubSeq(r.events, 1, j), NoneV)

Abandon ==
    /\ pc = "loop"
    /\ api = "parse"
    /\ head = <<>>
    /\ ~exhausted
    /\ delivered < MaxChunks
    /\ \E chunk \in LifecycleChunks(_stream_mode) :
          \E j \in 1..Len(Handled("parse", chunk).events) :
              AbandonAfter(chunk, Handled("parse", chunk), j)
    /\ delivered' = delivered + 1
    /\ pc' = "done"
    /\ UNCHANGED <<config, _extractors, api, effective_mode, head, exhausted>>

parse_lifecycle_chunk == parse_chunk_from(LifecycleChunks(_stream_mode))

NextLifecycle ==
    \/ parse
    \/ aparse
    \/ lifecycle_next("parse")
    \/ lifecycle_next("aparse")
    \/ Abandon
    \/ parse_lifecycle_chunk
    \/ reset

SpecLifecycle == InitLifecycle /\ [][NextLifecycle]_vars

-----------------------------------------------------------------------------
(* resume.py *)

\* langgraph.types.Command(resume=payload)
Command(payload) == [shape |-> "object", type |-> "Command", resume |-> payload]

\* The outcome of a call: the exception it raised, or the value it returned.
create_resume_input_TruthTest(decisions, value) ==
    IF ~Truthy(decisions) /\ ~Truthy(value)
    THEN [exc |-> "ValueError", result |-> PyNone]
    ELSE IF Truthy(decisions) /\ Truthy(value)
    THEN [exc |-> "ValueError", result |-> PyNone]
    ELSE IF Truthy(decisions)
    THEN [exc |-> NoneV,
          result |-> Command(PyDict(<<[k |-> "decisions", v |-> decisions]>>))]
    ELSE [exc |-> NoneV, result |-> Command(value)]

create_resume_input(decisions, value) ==
    IF decisions = PyNone /\ value = PyNone
    THEN [exc |-> "ValueError", result |-> PyNone]
    ELSE IF decisions # PyNone /\ value # PyNone
    THEN [exc |-> "ValueError", result |-> PyNone]
    ELSE IF decisions # PyNone
    THEN [exc |-> NoneV,
          result |-> Command(PyDict(<<[k |-> "decisions", v |-> decisions]>>))]
    ELSE [exc |-> NoneV, result |-> Command(value)]

\* Decisions as test_resume.py and the docstring build them: a "type" and,
\* for an edit, the edited args.
MaxDecisions == 2

Decisions ==
    {PyDict(<<[k |-> "type", v |-> PyName("approve")]>>),
     PyDict(<<[k |-> "type", v |-> PyName("reject")]>>),
     PyDict(<<[k |-> "type", v |-> PyName("edit")],
              [k |-> "args", v |-> PyDict(<<[k |-> "q", v |-> PyStr(sHi)]>>)]>>)}

DecisionLists ==
    {PyList(items) : items \in UNION {[1..n -> Decisions] : n \in 0..MaxDecisions}}

ResumeValues ==
    {PyBool(TRUE), PyBool(FALSE), PyStr(sOk), PyStr(<<>>),
     PyDict(<<[k |-> "approved", v |-> PyBool(TRUE)]>>)}

\* A caller builds a resume input; the parser is not involved.
resume ==
    /\ \E decisions \in DecisionLists \cup {PyNone},
          value \in ResumeValues \cup {PyNone} :
          LET r == create_resume_input(decisions, value) IN
          last' = [op |-> "create_resume_input", decisions |-> decisions,
                   value |-> value, exc |-> r.exc, result |-> r.result]
    /\ UNCHANGED <<config, _extractors, _pending_tool_calls, api, pc,
                   effective_mode, head, exhausted, out, delivered, started,
                   closed, raw, fed>>

SpecResume == Init /\ [][resume]_vars

----------------------------------------------------------------------------
(* BaseAdapter, adapters/base.py.  A method is a function from the        *)
(* adapter before the call to the adapter after it.                       *)

ToolState(id, name, args, status) ==
    [id |-> id, name |-> name, args |-> args, status |-> status,
     end_time |-> "None", result |-> PyNone, error_message |-> PyNone]

\* An entry of _display_items: ("message", (role, content)), ("tool",
\* tool_state) or ("extraction", event).
DisplayItem(type, data) == [type |-> type, data |-> data]

MessageData(role, content) == [role |-> role, content |-> content]

\* BaseAdapter.reset and PrintAdapter.reset
BaseAdapter_reset(s) ==
    [s EXCEPT !._display_items = <<>>, !._current_role = NoneV,
              !._current_content = <<>>, !._tool_indices = <<>>,
              !._interrupt = PyNone, !._error = PyNone, !._complete = FALSE]

PrintAdapter_reset(s) ==
    [BaseAdapter_reset(s) EXCEPT !._last_rendered_count = 0]

\* (mutation) a message is never merged into the one before it.
_flush_current_message_NoMerge(s) ==
    IF s._current_content # <<>> /\ NameTruthy(s._current_role)
    THEN [s EXCEPT !._display_items =
                       Append(@, DisplayItem("message",
                                             MessageData(s._current_role,
                                                         s._current_content))),
                   !._current_content = <<>>]
    ELSE s

_flush_current_message(s) ==
    IF s._current_content # <<>> /\ NameTruthy(s._current_role)
    THEN IF /\ s._display_items # <<>>
            /\ s._display_items[Len(s._display_items)].type = "message"
            /\ s._display_items[Len(s._display_items)].data.role
                   = s._current_role
         THEN [s EXCEPT !._display_items[Len(s._display_items)] =
                            DisplayItem(
                                "message",
                                MessageData(s._current_role,
                                            @.data.content \o <<"\n">>
                                                \o s._current_content)),
                        !._current_content = <<>>]
         ELSE [s EXCEPT !._display_items =
                            Append(@, DisplayItem(
                                          "message",
                                          MessageData(s._current_role,
                                                      s._current_content))),
                        !._current_content = <<>>]
    ELSE s

\* The assignments of the ToolCallEndEvent case to the tool state at idx.
EndTool(tool, event) ==
    IF event.status = "success"
    THEN [tool EXCEPT !.end_time = "now", !.result = event.result,
                      !.status = "SUCCESS"]
    ELSE [tool EXCEPT !.end_time = "now", !.result = event.result,
                      !.status = "ERROR",
                      !.error_message = event.error_message]

\* match event: an event of no case (a UsageEvent) changes nothing.
_process_event(s, event) ==
    CASE event.type = "ContentEvent" ->
           [(IF s._current_role # NoneV /\ s._current_role # event.role
             THEN _flush_current_message(s) ELSE s)
               EXCEPT !._current_role = event.role,
                      !._current_content = @ \o event.content]
      [] event.type = "ToolCallStartEvent" ->
           [_flush_current_message(s)
               EXCEPT !._tool_indices =
                          DictSet(@, event.id,
                                  Len(_flush_current_message(s)._display_items)),
                      !._display_items =
                          Append(@, DisplayItem(
                                        "tool",
                                        ToolState(event.id, event.name,
                                                  event.args, "RUNNING")))]
      [] event.type = "ToolCallEndEvent" ->
           IF event.id \in DOMAIN s._tool_indices
           THEN [s EXCEPT !._display_items[s._tool_indices[event.id] + 1] =
                              DisplayItem("tool", EndTool(@.data, event))]
           ELSE s
      [] event.type = "ToolExtractedEvent" ->
           [s EXCEPT !._display_items = Append(@, DisplayItem("extraction",
                                                              event))]
      [] event.type = "InterruptEvent" ->
           [_flush_current_message(s) EXCEPT !._interrupt = event]
      [] event.type = "ErrorEvent" -> [s EXCEPT !._error = event]
      [] event.type = "CompleteEvent" ->
           [_flush_current_message(s) EXCEPT !._complete = TRUE]
      [] OTHER -> s

\* The union of the allowed_decisions of the review configs; approve and
\* reject when there is none.
get_allowed_decisions(event) ==
    LET allowed ==
            UNION {{c.allowed_decisions.items[j].v :
                       j \in 1..Len(c.allowed_decisions.items)} :
                   c \in {event.review_configs[i] :
                             i \in 1..Len(event.review_configs)}}
    IN  IF allowed = {} THEN {"approve", "reject"} ELSE allowed

\* One decision per action request; args_modifier is the value the modifier
\* returns, PyNone when there is no modifier.
build_decisions(event, decision_type, args_modifier) ==
    PyList([i \in 1..Len(event.action_requests) |->
               IF decision_type = "edit" /\ args_modifier # PyNone
               THEN PyDict(<<[k |-> "type", v |-> PyName(decision_type)],
                             [k |-> "args", v |-> args_modifier]>>)
               ELSE PyDict(<<[k |-> "type", v |-> PyName(decision_type)]>>)])

\* One (status, content) pair of format_todos.
FormatTodo(item) ==
    [status |-> IF HasKey(item, "done")
                THEN (IF Truthy(DictGet(item, "done", PyNone))
                      THEN <<"completed">> ELSE <<"pending">>)
                ELSE PyToStr(DictGet(item, "status", PyName("pending"))),
     content |-> IF Truthy(DictGet(item, "content", PyNone))
                 THEN PyToStr(DictGet(item, "content", PyNone))
                 ELSE PyToStr(DictGet(item, "task", PyStr(PyToStr(item))))]

format_todos(todos) ==
    LET dicts == SelectSeq(todos, LAMBDA item : item.shape = "dict")
    IN  [i \in 1..Len(dicts) |-> FormatTodo(dicts[i])]

\* format_args(args): the text of the arguments, cut to 40 characters.
format_args(args) == <<"format_args", args>>

----------------------------------------------------------------------------
(* PrintAdapter, adapters/print.py.  A print() call is a record: the      *)
(* function that made it, the part of its output, and the text.           *)

Printed(by, part, text) == [by |-> by, part |-> part, text |-> text]

_print_message(role, content) ==
    <<Printed("_print_message", "label",
              <<"\n[", IF role = "human" THEN "User" ELSE "Assistant", "]">>),
      Printed("_print_message", "content", content)>>

_get_status_str(status) ==
    CASE status \in {"PENDING", "RUNNING"} -> "[...]"
      [] status = "SUCCESS" -> "[ OK]"
      [] status = "ERROR" -> "[ERR]"
      [] OTHER -> "[???]"

_print_tool(s, tool) ==
    <<Printed("_print_tool", "status",
              <<_get_status_str(tool.status), " ", tool.name,
                IF s._show_tool_args /\ tool.args # ""
                THEN format_args(tool.args) ELSE <<>>,
                IF tool.end_time # "None" THEN "duration" ELSE "">>)>>
    \o (IF tool.status = "ERROR" /\ Truthy(tool.error_message)
        THEN <<Printed("_print_tool", "error", tool.error_message)>>
        ELSE <<>>)

TodoIcon(status) ==
    IF status = <<"completed">> THEN "[x]"
    ELSE IF status = <<"in_progress">> THEN "[>]" ELSE "[ ]"

_print_extraction(s, event) ==
    LET data_str == IF Len(PyToStr(event.data)) > s._max_content_preview
                    THEN SubSeq(PyToStr(event.data), 1, s._max_content_preview)
                             \o <<".", ".", ".">>
                    ELSE PyToStr(event.data)
        todos == format_todos(event.data.items)
    IN  IF /\ event.extracted_type \in s._todo_types
           /\ event.data.shape = "list"
           /\ todos # <<>>
        THEN <<Printed("_print_extraction", "type", event.extracted_type)>>
             \o [i \in 1..Len(todos) |->
                    Printed("_print_extraction", "todo",
                            <<TodoIcon(todos[i].status), todos[i].content>>)]
        ELSE <<Printed("_print_extraction", "data",
                       <<event.extracted_type, data_str>>)>>

_print_interrupt(event) ==
    <<Printed("_print_interrupt", "header", "--- INTERRUPT ---")>>
    \o [i \in 1..Len(event.action_requests) |->
           Printed("_print_interrupt", "tool",
                   <<event.action_requests[i].tool,
                     IF Truthy(event.action_requests[i].args)
                     THEN format_args(event.action_requests[i].args)
                     ELSE <<>> >>)]
    \o <<Printed("_print_interrupt", "options", get_allowed_decisions(event))>>

\* The loop of render over the items not rendered yet.
RECURSIVE RenderItems(_, _)
RenderItems(s, items) ==
    IF items = <<>> THEN <<>>
    ELSE (CASE Head(items).type = "message" ->
                 _print_message(Head(items).data.role, Head(items).data.content)
            [] Head(items).type = "tool" -> _print_tool(s, Head(items).data)
            [] Head(items).type = "extraction" ->
                 _print_extraction(s, Head(items).data)
            [] OTHER -> <<>>)
         \o RenderItems(s, Tail(items))

\* self._display_items[self._last_rendered_count:]
ItemsToRender(s) ==
    IF s._last_rendered_count >= Len(s._display_items) THEN <<>>
    ELSE SubSeq(s._display_items, s._last_rendered_count + 1,
                Len(s._display_items))

\* (mutation) render prints every item again.
render_All(s) ==
    [s EXCEPT !.stdout = @ \o RenderItems(s, s._display_items),
              !._last_rendered_count = Len(s._display_items)]

render(s) ==
    [s EXCEPT !.stdout =
                  @ \o RenderItems(s, ItemsToRender(s))
                    \o (IF s._interrupt # PyNone
                        THEN _print_interrupt(s._interrupt) ELSE <<>>)
                    \o (IF s._error # PyNone
                        THEN <<Printed("render", "error", s._error.error)>>
                        ELSE <<>>)
                    \o (IF s._complete /\ s._error = PyNone /\ s._verbose
                        THEN <<Printed("render", "done", "--- Done ---")>>
                        ELSE <<>>),
              !._last_rendered_count = Len(s._display_items)]

\* BaseAdapter.update(event)
update(s, event) == render(_process_event(s, event))

\* The variables of the parser.
parser ==
    <<stream_mode, _stream_mode, _track_tool_lifecycle, _skip_tools,
      _include_state_updates, _extractors, _pending_tool_calls, api, pc,
      effective_mode, head, exhausted, out, last, delivered, started, closed,
      raw, fed>>

MaxUpdates == 4

\* The events a caller hands to update(): content of both roles, a tool call
\* and its results, extractions, an interrupt, an error and the completion.
DisplayEvents ==
    {ContentEvent(<<"A">>, "assistant", "agent"),
     ContentEvent(<<"B">>, "assistant", "agent"),
     ContentEvent(<<"H">>, "human", "agent"),
     ToolCallStartEvent("c1", "search", "args", "agent"),
     ToolCallEndEvent("c1", "search", PyStr(sOk), "success", PyNone, "float"),
     ToolCallEndEvent("c1", "search", PyStr(sErr), "error", PyStr(sErr),
                      "float"),
     ToolExtractedEvent("think_tool", "reflection", PyStr(<<"R">>)),
     ToolExtractedEvent("write_todos", "todos", PyList(<<PyDict(<<>>)>>)),
     InterruptOf(process_interrupt(interruptValue), interruptValue),
     ErrorEvent(<<"Error parsing stream: ", "StreamError">>, "StreamError"),
     CompleteEvent}

InitDisplay ==
    /\ StreamParser(PyName("updates"), TRUE, SkippedTools, FALSE)
    /\ \E verbose \in BOOLEAN : adapter = PrintAdapter(verbose)
    /\ run = NotRunning

\* adapter.update(event) on events of the caller's choice.
adapter_update ==
    /\ Len(run.updated) < MaxUpdates
    /\ \E event \in DisplayEvents :
          /\ adapter' = update(adapter, event)
          /\ run' = [run EXCEPT !.updated = Append(@, event)]
    /\ UNCHANGED parser

SpecDisplay == InitDisplay /\ [][adapter_update]_vars

----------------------------------------------------------------------------
(* BaseAdapter.run with a PrintAdapter *)

\* What the user may type at "New args (JSON): ".
NewArgs == {PyDict(<<[k |-> "cmd", v |-> PyName("ls")]>>)}

\* PrintAdapter.prompt_interrupt: the values it can return.  EOF gives None;
\* an empty or unknown response falls back to a member of allowed, so every
\* response ends as one; an edit takes new args, none (an empty line), or
\* turns into a reject when the JSON does not parse.
prompt_interrupt(event) ==
    {PyNone}
    \cup {build_decisions(event, response, PyNone) :
             response \in get_allowed_decisions(event)}
    \cup (IF "edit" \in get_allowed_decisions(event)
          THEN {build_decisions(event, "edit", new_args) : new_args \in NewArgs}
               \cup {build_decisions(event, "reject", PyNone)}
          ELSE {})

\* The chunks graph.stream gives in this model: a message, a tool call and
\* its result, and interrupts with one action request, with an edit allowed,
\* and with no action request.
interruptEdit ==
    PyTuple(<<Interrupt(PyDict(<<
        [k |-> "action_requests", v |-> PyList(<<ActionRequest("bash")>>)],
        [k |-> "review_configs",
         v |-> PyList(<<PyDict(<<
                  [k |-> "allowed_decisions",
                   v |-> PyList(<<PyName("approve"), PyName("edit")>>)]>>)>>)]
        >>))>>)

interruptEmpty ==
    PyTuple(<<Interrupt(PyDict(<<
        [k |-> "action_requests", v |-> PyList(<<>>)],
        [k |-> "review_configs", v |-> PyList(<<>>)]>>))>>)

RunChunks ==
    {Update("agent", <<aiText>>),
     Update("agent", <<aiCall, toolOk>>),
     interruptChunk,
     PyDict(<<[k |-> "__interrupt__", v |-> interruptEdit]>>),
     PyDict(<<[k |-> "__interrupt__", v |-> interruptEmpty]>>)}

InputData ==
    {PyDict(<<[k |-> "messages", v |-> PyList(<<PyStr(sHi)>>)]>>)}

\* run(graph, input_data, parser=parser) on a parser for "updates" chunks,
\* or with no parser argument, which builds StreamParser(stream_mode).
InitRun ==
    /\ \E track \in BOOLEAN : StreamParser(PyName("updates"), track, {}, FALSE)
    /\ \E verbose \in BOOLEAN : adapter = PrintAdapter(verbose)
    /\ run = NotRunning

settings ==
    <<stream_mode, _stream_mode, _track_tool_lifecycle, _skip_tools,
      _include_state_updates>>

\* self.reset(); current_input = input_data
run_start ==
    /\ run.pc = "idle"
    /\ pc = "idle"
    /\ \E input_data \in InputData :
          run' = [run EXCEPT !.pc = "stream", !.current_input = input_data]
    /\ adapter' = PrintAdapter_reset(adapter)
    /\ UNCHANGED parser

\* The head of "while True": graph.stream(current_input, ...) and
\* parser.parse(stream).  It is reached from run's start, from the break, and
\* when the for loop ends without a return.
run_stream ==
    /\ \/ run.pc = "stream"
       \/ run.pc = "for" /\ run.seen = Len(out) /\ pc = "done"
    /\ run' = [run EXCEPT !.pc = "for", !.seen = 0,
                          !.calls = Append(@, run.current_input)]
    /\ Generator("parse")
    /\ UNCHANGED <<settings, adapter>>

\* The for loop asks the generator for its next event, and the generator
\* pulls a chunk from the stream.
run_next ==
    /\ run.pc = "for"
    /\ run.seen = Len(out)
    /\ pc = "loop"
    /\ api = "parse"
    /\ \/ Pull("parse", RunChunks)
       \/ StopIteration
       \/ StreamRaises
    /\ UNCHANGED <<config, _extractors, api, effective_mode>>

\* (mutation) the loop goes on after an interrupt that got a decision.
Iteration_NoBreak(event, decision, s) ==
    /\ adapter' = IF event.type = "InterruptEvent" /\ decision # PyNone
                  THEN [s EXCEPT !._interrupt = PyNone] ELSE s
    /\ run' = [run EXCEPT
                 !.updated = Append(@, event),
                 !.seen = @ + 1,
                 !.decision = IF event.type = "InterruptEvent" THEN decision
                              ELSE @,
                 !.current_input =
                     IF event.type = "InterruptEvent" /\ decision # PyNone
                     THEN create_resume_input(decision, PyNone).result ELSE @,
                 !.pc = IF \/ event.type \in {"CompleteEvent", "ErrorEvent"}
                           \/ event.type = "InterruptEvent" /\ decision = PyNone
                        THEN "returned" ELSE "for"]
    /\ pc' = IF event.type = "InterruptEvent" /\ decision = PyNone THEN "done"
             ELSE pc

\* (mutation) the stored interrupt is kept when the run resumes.
Iteration_KeepInterrupt(event, decision, s) ==
    /\ adapter' = s
    /\ run' = [run EXCEPT
                 !.updated = Append(@, event),
                 !.seen = @ + 1,
                 !.decision = IF event.type = "InterruptEvent" THEN decision
                              ELSE @,
                 !.current_input =
                     IF event.type = "InterruptEvent" /\ decision # PyNone
                     THEN create_resume_input(decision, PyNone).result ELSE @,
                 !.pc = CASE event.type = "InterruptEvent" ->
                               (IF decision = PyNone THEN "returned"
                                ELSE "stream")
                          [] event.type \in {"CompleteEvent", "ErrorEvent"} ->
                               "returned"
                          [] OTHER -> "for"]
    /\ pc' = IF event.type = "InterruptEvent" THEN "done" ELSE pc

\* The body of the for loop on one event, s being the adapter after
\* self.update(event) and decision what prompt_interrupt returned.  A return
\* or break leaves the generator suspended at the yield of event, and it is
\* closed there.
Iteration(event, decision, s) ==
    /\ adapter' = IF event.type = "InterruptEvent" /\ decision # PyNone
                  THEN [s EXCEPT !._interrupt = PyNone] ELSE s
    /\ run' = [run EXCEPT
                 !.updated = Append(@, event),
                 !.seen = @ + 1,
                 !.decision = IF event.type = "InterruptEvent" THEN decision
                              ELSE @,
                 !.current_input =
                     IF event.type = "InterruptEvent" /\ decision # PyNone
                     THEN create_resume_input(decision, PyNone).result ELSE @,
                 !.pc = CASE event.type = "InterruptEvent" ->
                               (IF decision = PyNone THEN "returned"
                                ELSE "stream")
                          [] event.type \in {"CompleteEvent", "ErrorEvent"} ->
                               "returned"
                          [] OTHER -> "for"]
    /\ pc' = IF event.type = "InterruptEvent" THEN "done" ELSE pc

\* for event in parser.parse(stream): the next event the generator yielded.
run_event ==
    /\ run.pc = "for"
    /\ run.seen < Len(out)
    /\ \E decision \in IF out[run.seen + 1].type = "InterruptEvent"
                        THEN prompt_interrupt(out[run.seen + 1])
                        ELSE {PyNone} :
          Iteration(out[run.seen + 1], decision,
                    update(adapter, out[run.seen + 1]))
    /\ UNCHANGED <<settings, _extractors, _pending_tool_calls, api,
                   effective_mode, head, exhausted, out, last, delivered,
                   started, closed, raw, fed>>

NextRun ==
    \/ run_start
    \/ run_stream
    \/ run_next
    \/ run_event

SpecRun == InitRun /\ [][NextRun]_vars

----------------------------------------------------------------------------
(* Properties *)

IsTerminal(e) == e.type \in {"CompleteEvent", "ErrorEvent"}

\* The positions of seq whose element satisfies Test.
Positions(seq, Test(_)) == {i \in 1..Len(seq) : Test(seq[i])}

\* C1: the events one parse() or aparse() has yielded hold at most one
\* terminal event (CompleteEvent or ErrorEvent), and it is the last event:
\* nothing is yielded after it.
C1_TerminalIsLast ==
    \A i \in 1..Len(out) : IsTerminal(out[i]) => i = Len(out)

\* A generator that ended with an ErrorEvent after it had yielded events.
C1_Witness ==
    /\ pc = "done"
    /\ Len(out) >= 3
    /\ out[Len(out)].type = "ErrorEvent"

\* C2: a step in which the raw stream or a handler raises keeps the events
\* yielded so far, adds the events the handler yielded before it raised and
\* then exactly one ErrorEvent with a message and the exception, and ends the
\* generator; its output holds no CompleteEvent, and a finished generator
\* yields nothing more.
C2_ExceptionBecomesErrorEvent ==
    [][/\ (last'.op \in {"peek", "chunk", "raise"}
           /\ last'.exc \notin {NoneV, "StopIteration"})
          => /\ pc' = "done"
             /\ Len(out') > Len(out)
             /\ SubSeq(out', 1, Len(out)) = out
             /\ out'[Len(out')] =
                   ErrorEvent(<<"Error parsing stream: ", last'.exc>>, last'.exc)
             /\ \A i \in 1..(Len(out') - 1) : ~IsTerminal(out'[i])
       /\ pc = "done" => out' \in {out, <<>>}]_vars

\* The raw stream raises after a chunk that produced events.
C2_Witness ==
    /\ last.op = "raise"
    /\ Len(out) >= 2
    /\ out[1].type = "ContentEvent"
    /\ out[Len(out)].type = "ErrorEvent"

\* C3: when the raw stream ends without an exception, exactly one
\* CompleteEvent is yielded and it is the last event; when the stream was
\* empty (the generator had pulled no chunk), the whole output is that one
\* CompleteEvent.
C3_CompleteOnExhaustion ==
    [][last'.op = "stop"
          => /\ pc' = "done"
             /\ out' = out \o <<CompleteEvent>>
             /\ \A i \in 1..Len(out) : ~IsTerminal(out[i])
             /\ (\/ last.op \in {"parse", "aparse"}
                 \/ (last.op = "peek" /\ last.exc = "StopIteration"))
                => out' = <<CompleteEvent>>]_vars

\* An empty stream in auto mode.
C3_Witness ==
    /\ last.op = "stop"
    /\ _stream_mode = ModeStr("auto")
    /\ delivered = 0
    /\ out = <<CompleteEvent>>

\* The mode under which the chunk of the last step was dispatched, the
\* channel it was routed to, and the data the handler received.
ModeOfStep == IF last.op = "parse_chunk" THEN _stream_mode ELSE effective_mode

IsPair(chunk) == chunk.shape = "tuple" /\ Len(chunk.items) = 2

Channel ==
    IF last.op \notin {"chunk", "parse_chunk"} THEN "none"
    ELSE IF ModeOfStep.kind = "list"
    THEN (IF IsPair(last.chunk) /\ last.chunk.items[1].shape = "name"
          THEN last.chunk.items[1].v ELSE "none")
    ELSE ModeOfStep.v

RoutedData ==
    IF ModeOfStep.kind = "list" THEN last.chunk.items[2] ELSE last.chunk

\* The messages of an updates chunk, in the order of its nodes.
MessagesOfNode(state_data) ==
    IF state_data.shape = "dict" /\ HasKey(state_data, "messages")
    THEN LET m == DictGet(state_data, "messages", PyNone) IN
         IF m.shape = "list" THEN m.items
         ELSE IF m.shape = "object" THEN <<m>> ELSE <<>>
    ELSE <<>>

MessagesIn(data) ==
    IF data.shape # "dict" \/ HasKey(data, "__interrupt__") THEN <<>>
    ELSE Flatten([i \in 1..Len(data.items) |-> MessagesOfNode(data.items[i].v)])

IsEnd(e) == e.type = "ToolCallEndEvent"
IsStart(e) == e.type = "ToolCallStartEvent"
IsContent(e) == e.type = "ContentEvent"

\* The events yielded before position i of the last step.
Before(i) == SubSeq(last.events, 1, i - 1)

C5_ToolMessages ==
    IF _track_tool_lifecycle /\ Channel = "updates" /\ last.exc = NoneV
    THEN SelectSeq(MessagesIn(RoutedData),
                   LAMBDA m : /\ m.type = "ToolMessage"
                              /\ NameTruthy(m.tool_call_id)
                              /\ m.name \notin _skip_tools)
    ELSE <<>>

\* The inputs that are errors: an explicit status, or the text "Error:x".
C5_IsErrorInput(m) == m.status = "error" \/ m.content = PyStr(sErr)

C5_EndsMatch(NameOf(_)) ==
    (last.op \in {"chunk", "parse_chunk"} /\ _track_tool_lifecycle
     /\ Channel = "updates" /\ last.exc = NoneV)
    => LET ends == SelectSeq(last.events, IsEnd)
           tools == C5_ToolMessages
       IN  /\ Len(ends) = Len(tools)
           /\ \A i \in 1..Len(tools) :
                 /\ ends[i].id = tools[i].tool_call_id
                 /\ ends[i].name = NameOf(tools[i])
                 /\ ends[i].result = tools[i].content
                 /\ ends[i].status = IF C5_IsErrorInput(tools[i]) THEN "error"
                                     ELSE "success"

\* C5 as stated: with lifecycle tracking, every ToolMessage with a
\* tool_call_id and a name outside the skip-set yields exactly one
\* ToolCallEndEvent with that id, the message's name, the content as result
\* and the status of error detection, a start having been seen or not.
C5_EndCarriesMessageName == C5_EndsMatch(LAMBDA m : m.name)

\* C5 as amended: the same, the name of the event being the message's name,
\* or "unknown" when the message has no name.
C5_EndCarriesNameOrUnknown ==
    C5_EndsMatch(LAMBDA m : IF NameTruthy(m.name) THEN m.name ELSE "unknown")

\* An error result without a name and without a start before it.
C5_Witness ==
    /\ _track_tool_lifecycle
    /\ Channel = "updates"
    /\ RoutedData = Update("tools", <<toolNoName>>)
    /\ "c1" \notin last.started
    /\ \E i \in 1..Len(last.events) :
          /\ IsEnd(last.events[i])
          /\ last.events[i].name = "unknown"
          /\ last.events[i].status = "error"

\* C6 as stated: once a ToolCallEndEvent has been yielded for an id, no
\* second one is yielded for it unless a ToolCallStartEvent with that id came
\* in between.
C6_NoSecondEnd ==
    _track_tool_lifecycle
    => \A i \in 1..Len(last.events) :
          IsEnd(last.events[i])
          => last.events[i].id \notin TrackClosed(last.closed, Before(i))

\* C6 as amended: a ToolMessage for an id already closed yields a second
\* ToolCallEndEvent, which consumes no pending start: its duration_ms is None
\* (the record of a start is consumed by at most one end).
C6_SecondEndConsumesNothing ==
    _track_tool_lifecycle
    => \A i \in 1..Len(last.events) :
          (IsEnd(last.events[i])
           /\ last.events[i].id \in TrackClosed(last.closed, Before(i)))
          => last.events[i].duration_ms = "None"

\* A start, its end, and a second end of the same id in one parse().
C6_Witness ==
    /\ _track_tool_lifecycle
    /\ \E i, j, k \in 1..Len(out) :
          /\ i < j /\ j < k
          /\ IsStart(out[i]) /\ out[i].id = "c1"
          /\ IsEnd(out[j]) /\ out[j].id = "c1" /\ out[j].duration_ms = "float"
          /\ IsEnd(out[k]) /\ out[k].id = "c1" /\ out[k].duration_ms = "None"
          /\ \A n \in (j + 1)..(k - 1) : ~IsStart(out[n])

\* The tool name an event bears (NoneV for the events that bear none).
ToolNameOf(e) ==
    CASE e.type \in {"ToolCallStartEvent", "ToolCallEndEvent"} -> e.name
      [] e.type = "ToolExtractedEvent" -> e.tool_name
      [] OTHER -> NoneV

\* C7: no ToolCallStartEvent, ToolCallEndEvent or ToolExtractedEvent bears a
\* name of the skip-set, and no pending record is kept for such a name.
C7_SkippedToolsAreSilent ==
    /\ \A i \in 1..Len(out) : ToolNameOf(out[i]) \notin _skip_tools
    /\ \A i \in 1..Len(last.events) :
          ToolNameOf(last.events[i]) \notin _skip_tools
    /\ \A id \in DOMAIN _pending_tool_calls :
          _pending_tool_calls[id].name \notin _skip_tools

\* The result of a skipped tool, without a start, with an extractor
\* registered under its name; and the call of a skipped tool.
C7_Witness ==
    /\ _track_tool_lifecycle
    /\ "hidden" \in DOMAIN _extractors
    /\ pc = "loop"
    /\ Channel = "updates"
    /\ last.chunk = Update("tools", <<toolHidden>>)
    /\ "c1" \notin last.started
    /\ \E i \in 1..Len(out) : IsStart(out[i]) /\ out[i].id = "c2"
    /\ \A i \in 1..Len(out) : IsStart(out[i]) => out[i].id # "c1"

\* C8: with lifecycle tracking, the pending-tool-call map holds one record
\* for exactly the ids with a ToolCallStartEvent yielded since the last
\* reset() and no ToolCallEndEvent yielded after it; the record is the start
\* event of that id.
C8_PendingIsOpenStarts ==
    _track_tool_lifecycle
    => /\ DOMAIN _pending_tool_calls = started
       /\ \A id \in DOMAIN _pending_tool_calls :
             /\ IsStart(_pending_tool_calls[id])
             /\ _pending_tool_calls[id].id = id

\* One call closed and another one open.
C8_Witness ==
    /\ _track_tool_lifecycle
    /\ "c1" \in closed
    /\ started = {"c2"}
    /\ DOMAIN _pending_tool_calls = {"c2"}
    /\ last.started = {}

\* C9: reset() empties the pending-tool-call map and leaves the extractors
\* and the configuration as they were.
C9_ResetClearsOnlyPending ==
    [][last'.op = "reset"
          => /\ _pending_tool_calls' = EmptyDict
             /\ _extractors' = _extractors
             /\ config' = config]_vars

\* A reset() of a parser with an open call and a changed registry.
C9_Witness ==
    /\ last.op = "reset"
    /\ last.started # {}
    /\ _extractors # _register_builtin_extractors
    /\ _pending_tool_calls = EmptyDict

C11_Skippable(chunk) ==
    \/ ~IsPair(chunk)
    \/ chunk.items[1] \notin {PyName("updates"), PyName("messages")}

\* C11: in list mode a chunk that is no 2-tuple, or whose mode name is not
\* known, yields no event and raises nothing, leaves the pending dict, the
\* extractors and the configuration as they were, and leaves the generator
\* in its loop, ready for the next chunk.
C11_MalformedEnvelopeSkipped ==
    [][(/\ last'.op \in {"chunk", "parse_chunk"}
        /\ ModeOfStep'.kind = "list"
        /\ C11_Skippable(last'.chunk))
          => /\ last'.events = <<>>
             /\ last'.exc = NoneV
             /\ _pending_tool_calls' = _pending_tool_calls
             /\ _extractors' = _extractors
             /\ config' = config
             /\ started' = started
             /\ last'.op = "chunk" => (out' = out /\ pc' = "loop")]_vars

\* A dual-mode run whose first chunk was skipped (an envelope of an unknown
\* mode, or a chunk that is no pair) and whose second chunk was processed.
C11_Witness ==
    /\ effective_mode.kind = "list"
    /\ Len(raw) = 2
    /\ C11_Skippable(raw[1])
    /\ last.op = "chunk"
    /\ last.chunk = Envelope("messages", chunkHi)
    /\ out = <<ContentEvent(sHi, "assistant", "agent")>>

\* A chunk has the shape of mode X: a dict for "updates", a (message,
\* metadata) pair for "messages", a (mode name, data) envelope of a known
\* mode for the list.
C12_HasShape(X, chunk) ==
    CASE X.kind = "str" /\ X.v = "updates" -> chunk.shape = "dict"
      [] X.kind = "str" /\ X.v = "messages" ->
           IsPair(chunk) /\ chunk.items[1].shape = "object"
      [] OTHER ->
           /\ IsPair(chunk)
           /\ chunk.items[1] \in {PyName("updates"), PyName("messages")}

\* What a parse() configured with the explicit mode X does with one chunk on
\* the pending dict.
C12_Explicit(X, chunk, pending) ==
    IF X.kind = "list" THEN _parse_multi_mode(chunk, pending)
    ELSE _create_handler_for_mode(X.v, FALSE, chunk, pending)

\* In auto mode, on a stream all of whose chunks so far have the shape of X,
\* the peek yields nothing and every chunk step yields the events, and leaves
\* the pending dict, that the explicit mode X gives for the same chunk on the
\* same pending dict.
C12_AutoAs(X) ==
    (/\ _stream_mode = ModeStr("auto")
     /\ \A i \in 1..Len(raw) : C12_HasShape(X, raw[i]))
    => /\ (last.op = "peek" /\ last.exc = NoneV) => out = <<>>
       /\ last.op = "chunk"
          => /\ last.events = Yielded(C12_Explicit(X, last.chunk, last.pending))
             /\ _pending_tool_calls =
                   C12_Explicit(X, last.chunk, last.pending).pending

\* C12 as stated: auto-detection is transparent for each of the explicit
\* modes "updates", "messages" and ["updates", "messages"]: on a stream of
\* the shape of X, auto yields the event sequence of X.
C12_AutoTransparentAllModes ==
    /\ C12_AutoAs(ModeStr("updates"))
    /\ C12_AutoAs(ModeStr("messages"))
    /\ C12_AutoAs(ModeList(<<"updates", "messages">>))

\* C12 as amended: auto-detection is transparent for "updates" and for the
\* list ["updates", "messages"]; it never resolves to "messages": a stream of
\* (message, metadata) pairs is parsed as "updates" and its chunks yield no
\* event.
C12_AutoTransparentUpdatesAndList ==
    /\ C12_AutoAs(ModeStr("updates"))
    /\ C12_AutoAs(ModeList(<<"updates", "messages">>))
    /\ (/\ _stream_mode = ModeStr("auto")
        /\ last.op = "chunk"
        /\ \A i \in 1..Len(raw) : C12_HasShape(ModeStr("messages"), raw[i]))
       => (last.events = <<>> /\ effective_mode = ModeStr("updates"))

\* An auto-detected multi-mode stream: a token, then a tool call.
C12_Witness ==
    /\ _stream_mode = ModeStr("auto")
    /\ _track_tool_lifecycle
    /\ last.op = "chunk"
    /\ raw = <<Envelope("messages", chunkHi),
               Envelope("updates", Update("agent", <<aiCall>>))>>
    /\ Len(out) = 2
    /\ IsContent(out[1])
    /\ IsStart(out[2])

\* C13: in auto mode the peeked first chunk is neither lost, duplicated nor
\* reordered, in parse and in aparse, whatever the detection result: the
\* chunks handed to the handlers, followed by the chained chunk still to
\* come, are exactly the chunks pulled from the raw stream, in order; each
\* chunk step handles the next raw chunk, and at the end of the stream the
\* handlers have received every raw chunk once.
C13_PeekedChunkPreserved ==
    (_stream_mode = ModeStr("auto") /\ pc \in {"peek", "loop", "done"})
    => /\ fed \o head = raw
       /\ Len(head) <= 1
       /\ last.op = "chunk" => (fed # <<>> /\ last.chunk = raw[Len(fed)])
       /\ last.op = "stop" => fed = raw

\* An aparse run in auto mode that detected single "updates" mode: the
\* peeked chunk opened a call, and a second chunk followed it.
C13_Witness ==
    /\ _stream_mode = ModeStr("auto")
    /\ api = "aparse"
    /\ effective_mode = ModeStr("updates")
    /\ _track_tool_lifecycle
    /\ last.op = "chunk"
    /\ Len(raw) = 2
    /\ fed = raw
    /\ raw[1] = Update("agent", <<aiCall>>)
    /\ out # <<>>
    /\ IsStart(out[1])

\* The last step handed the updates handler a dict with the key
\* "__interrupt__".
C14_InterruptChunk ==
    /\ Channel = "updates"
    /\ RoutedData.shape = "dict"
    /\ HasKey(RoutedData, "__interrupt__")

\* C14: an updates chunk with the key "__interrupt__" yields exactly one
\* InterruptEvent and nothing else, raises nothing, and leaves the
\* pending-tool-call map as it was, whatever other node keys the chunk has.
C14_InterruptChunkYieldsOneInterrupt ==
    C14_InterruptChunk
    => /\ Len(last.events) = 1
       /\ last.events[1].type = "InterruptEvent"
       /\ last.exc = NoneV
       /\ _pending_tool_calls = last.pending

\* An interrupt chunk that also has an "agent" key with a tool-calling AI
\* message, arriving while a call is open, with lifecycle tracking on.
C14_Witness ==
    /\ C14_InterruptChunk
    /\ _track_tool_lifecycle
    /\ last.op = "chunk"
    /\ last.chunk = interruptChunk
    /\ last.pending # EmptyDict
    /\ Len(out) = 2
    /\ IsStart(out[1])
    /\ out[2].type = "InterruptEvent"

\* An interrupt value that is a tuple of several Interrupt wrappers.
C15_Wrappers(v) ==
    /\ v.shape = "tuple"
    /\ Len(v.items) > 1
    /\ \A i \in 1..Len(v.items) :
          HasAttr(v.items[i], "value") /\ v.items[i].value.shape = "dict"

\* The lists under key of every wrapper, concatenated in wrapper order.
C15_Concat(v, key) ==
    Flatten([i \in 1..Len(v.items) |->
                ListItems(DictGet(v.items[i].value, key, PyList(<<>>)))])

C15_InterruptValue == DictGet(RoutedData, "__interrupt__", PyNone)

\* C15: when the interrupt value is a tuple of several Interrupt wrappers,
\* the InterruptEvent's action_requests and review_configs are the serialized
\* concatenation, in wrapper order, of the lists of every wrapper; two
\* wrappers with one action request each give two action requests, the first
\* wrapper's first.
C15_InterruptsAggregated ==
    (C14_InterruptChunk /\ C15_Wrappers(C15_InterruptValue))
    => /\ last.events[1].action_requests =
             Serialized(C15_Concat(C15_InterruptValue, "action_requests"),
                        C15_Concat(C15_InterruptValue, "review_configs"))
                .action_requests
       /\ last.events[1].review_configs =
             Serialized(C15_Concat(C15_InterruptValue, "action_requests"),
                        C15_Concat(C15_InterruptValue, "review_configs"))
                .review_configs
       /\ C15_InterruptValue = interruptTwo
          => /\ Len(last.events[1].action_requests) = 2
             /\ Len(last.events[1].review_configs) = 2
             /\ last.events[1].action_requests[1].tool = PyName("bash")
             /\ last.events[1].action_requests[1].tool_call_id = PyName("call_0")
             /\ last.events[1].action_requests[2].tool = PyName("edit")
             /\ last.events[1].action_requests[2].tool_call_id = PyName("call_1")

\* The interrupt chunk with two wrappers arrived on the updates channel.
C15_Witness ==
    /\ C14_InterruptChunk
    /\ C15_InterruptValue = interruptTwo
    /\ last.op = "chunk"
    /\ out # <<>>
    /\ out[Len(out)].type = "InterruptEvent"
    /\ Len(out[Len(out)].action_requests) = 2

\* Message m of an updates chunk can have caused event e: a start comes from
\* an AI message with that call id, an end from a ToolMessage with that id,
\* an extraction from a ToolMessage of that tool, assistant content and usage
\* from an AI message, human content from a HumanMessage.
C16_Causes(m, e) ==
    CASE IsStart(e) ->
           /\ get_message_type_name(m) \in {"AIMessage", "AIMessageChunk"}
           /\ \E i \in 1..Len(extract_tool_calls(m)) :
                 extract_tool_calls(m)[i].id = e.id
      [] IsEnd(e) ->
           get_message_type_name(m) = "ToolMessage" /\ m.tool_call_id = e.id
      [] e.type = "ToolExtractedEvent" ->
           get_message_type_name(m) = "ToolMessage" /\ m.name = e.tool_name
      [] IsContent(e) ->
           IF e.role = "assistant"
           THEN get_message_type_name(m) \in {"AIMessage", "AIMessageChunk"}
           ELSE get_message_type_name(m) = "HumanMessage"
      [] e.type = "UsageEvent" ->
           get_message_type_name(m) \in {"AIMessage", "AIMessageChunk"}
      [] OTHER -> FALSE

C16_Origins(e, msgs) == {k \in 1..Len(msgs) : C16_Causes(msgs[k], e)}

C16_MessageEventTypes ==
    {"ToolCallStartEvent", "ToolCallEndEvent", "ToolExtractedEvent",
     "ContentEvent", "UsageEvent"}

\* Every message event of the chunk has a message of the chunk as its cause,
\* and an event yielded before another has a cause that is not after the
\* other's.
C16_InMessageOrder(events, msgs) ==
    /\ \A p \in 1..Len(events) :
          events[p].type \in C16_MessageEventTypes
          => C16_Origins(events[p], msgs) # {}
    /\ \A p, q \in 1..Len(events) :
          (/\ p < q
           /\ events[p].type \in C16_MessageEventTypes
           /\ events[q].type \in C16_MessageEventTypes)
          => \E k \in C16_Origins(events[p], msgs) :
                \E l \in C16_Origins(events[q], msgs) : k <= l

\* C16: events come out in causal order.  A chunk step handles the next chunk
\* of the raw stream and appends that chunk's events to what was yielded
\* before, in every mode and on either channel of dual mode, so the events of
\* an earlier chunk precede those of a later one; within one updates chunk
\* the events of an earlier message precede those of a later message.
C16_EventsInCausalOrder ==
    [][/\ last'.op = "chunk"
          => /\ out' = out \o last'.events
             /\ fed' = Append(fed, last'.chunk)
             /\ Len(raw') >= Len(fed')
             /\ raw'[Len(fed')] = last'.chunk
             /\ Channel' = "updates"
                => C16_InMessageOrder(last'.events, MessagesIn(RoutedData)')
       /\ last'.op \in {"peek", "stop", "raise"}
          => (out' = out \o last'.events /\ fed' = fed)]_vars

\* A second updates chunk with a tool-calling AI message followed by the
\* tool's result: the start precedes the end, after the first chunk's events.
C16_Witness ==
    /\ _track_tool_lifecycle
    /\ last.op = "chunk"
    /\ Len(fed) = 2
    /\ last.chunk = Update("agent", <<aiCall, toolOk>>)
    /\ Len(last.events) = 2
    /\ IsStart(last.events[1])
    /\ IsEnd(last.events[2])
    /\ Len(out) > 2
    /\ SubSeq(out, Len(out) - 1, Len(out)) = last.events

\* C17: parse() and aparse() are equivalent.  Every step of an aparse()
\* generator does what parse() does from the same configuration, pending
\* dict and chunk: the peek detects the same mode and chains the same chunk,
\* a chunk step yields the same events (the ErrorEvent of a raising handler
\* included) and leaves the same pending dict, and the end or the failure of
\* the raw stream yields the same terminal event.
C17_AparseAsParse ==
    api = "aparse"
    => /\ (last.op = "peek" /\ last.exc = NoneV)
          => /\ effective_mode = _peek_and_detect(last.chunk)
             /\ head = chain(last.chunk)
             /\ out = <<>>
       /\ last.op = "chunk"
          => /\ last.events =
                   Yielded(C12_Explicit(effective_mode, last.chunk, last.pending))
             /\ _pending_tool_calls =
                   C12_Explicit(effective_mode, last.chunk, last.pending).pending
       /\ last.op = "stop"
          => (last.events = OnExhausted /\ _pending_tool_calls = last.pending)
       /\ (last.op = "raise" \/ (last.op = "peek" /\ last.exc = "StreamError"))
          => /\ last.events = ExceptClause("StreamError")
             /\ _pending_tool_calls = last.pending

\* An aparse() run in dual mode: an updates chunk opened a call and a
\* messages chunk streamed a token.
C17_Witness ==
    /\ api = "aparse"
    /\ effective_mode.kind = "list"
    /\ _track_tool_lifecycle
    /\ last.op = "chunk"
    /\ last.chunk = Envelope("messages", chunkHi)
    /\ last.pending # EmptyDict
    /\ Len(out) = 2
    /\ IsStart(out[1])
    /\ IsContent(out[2])

C18_IsExtracted(e) == e.type = "ToolExtractedEvent"
C18_NotExtracted(e) == e.type # "ToolExtractedEvent"

\* What the updates handler of the last step gives for the same chunk and
\* pending dict when no extractor is registered.
C18_WithoutExtractors ==
    UpdatesHandler_process_chunk(
        UpdatesHandler(EmptyDict, _skip_tools, _track_tool_lifecycle,
                       _include_state_updates, ModeOfStep.kind = "list"),
        RoutedData, last.pending)

C18_ExpectedEvents ==
    IF last.op = "chunk" THEN Yielded(C18_WithoutExtractors)
    ELSE IF C18_WithoutExtractors.exc = NoneV
    THEN C18_WithoutExtractors.events ELSE <<>>

\* The extractor registered for ToolMessage m matches: it returns a value.
C18_Matches(m) ==
    /\ get_message_type_name(m) = "ToolMessage"
    /\ NameTruthy(m.name)
    /\ m.name \notin _skip_tools
    /\ m.name \in DOMAIN _extractors
    /\ ~Extract(_extractors[m.name],
                IF m.artifact # PyNone THEN m.artifact ELSE m.content).raised
    /\ Extract(_extractors[m.name],
               IF m.artifact # PyNone THEN m.artifact ELSE m.content).value
          # PyNone

\* C18: extraction never blocks or alters the tool-call end.  On every
\* updates chunk the events other than ToolExtractedEvents (the ends with
\* their id, name, result and status among them), the exception and the
\* pending dict are those of the same handler without any extractor; a
\* ToolExtractedEvent comes only from a ToolMessage whose extractor matches,
\* so a raising or non-matching extractor yields none, and no ErrorEvent.
C18_ExtractionNeverAltersEnd ==
    Channel = "updates"
    => /\ SelectSeq(last.events, C18_NotExtracted) = C18_ExpectedEvents
       /\ last.exc = C18_WithoutExtractors.exc
       /\ _pending_tool_calls = C18_WithoutExtractors.pending
       /\ \A i \in 1..Len(last.events) :
             C18_IsExtracted(last.events[i])
             => \E k \in 1..Len(MessagesIn(RoutedData)) :
                   /\ C18_Matches(MessagesIn(RoutedData)[k])
                   /\ MessagesIn(RoutedData)[k].name = last.events[i].tool_name
       /\ last.exc = NoneV
          => Len(SelectSeq(last.events, C18_IsExtracted)) =
                Cardinality({k \in 1..Len(MessagesIn(RoutedData)) :
                                C18_Matches(MessagesIn(RoutedData)[k])})

\* A think_tool result arrives while the extractor registered for think_tool
\* raises: the end is yielded, no extraction and no error.
C18_Witness ==
    /\ Channel = "updates"
    /\ _track_tool_lifecycle
    /\ "think_tool" \in DOMAIN _extractors
    /\ _extractors["think_tool"] = RaisingExtractor("think_tool")
    /\ last.op = "chunk"
    /\ last.chunk = Update("tools", <<toolThink>>)
    /\ last.exc = NoneV
    /\ Len(last.events) = 1
    /\ IsEnd(last.events[1])
    /\ last.events[1].id = "c2"
    /\ last.events[1].status = "success"

C19_IsLifecycle(e) == IsStart(e) \/ IsEnd(e)

\* The last step handled an updates chunk with a ToolMessage whose extractor
\* matches, and raised nothing.
C19_MatchingToolMessage ==
    /\ Channel = "updates"
    /\ last.exc = NoneV
    /\ \E k \in 1..Len(MessagesIn(RoutedData)) :
          C18_Matches(MessagesIn(RoutedData)[k])

C19_ExtractedYielded ==
    \E i \in 1..Len(last.events) : C18_IsExtracted(last.events[i])

\* C19: with track_tool_lifecycle=False no step yields or returns a
\* ToolCallStartEvent or a ToolCallEndEvent, no step modifies the
\* pending-tool-call map, and a ToolMessage whose extractor matches still
\* gives its ToolExtractedEvent.
C19_UntrackedLifecycleSilent ==
    [][~_track_tool_lifecycle
       => /\ _pending_tool_calls' = _pending_tool_calls
          /\ Positions(last'.events, C19_IsLifecycle) = {}
          /\ Positions(out', C19_IsLifecycle) = {}
          /\ C19_MatchingToolMessage' => C19_ExtractedYielded']_vars

\* Tracking is off: a tool-calling AI message yielded nothing, and the
\* think_tool result that follows yields only its reflection.
C19_Witness ==
    /\ ~_track_tool_lifecycle
    /\ last.op = "chunk"
    /\ Len(fed) = 2
    /\ fed[1] = Update("agent", <<aiCallHidden>>)
    /\ last.chunk = Update("tools", <<toolThink>>)
    /\ _pending_tool_calls = EmptyDict
    /\ out = <<ToolExtractedEvent("think_tool", "reflection", PyStr(<<"R">>))>>

\* The message and the metadata of the messages-channel chunk of the last
\* step.
C20_Message == IF IsPair(RoutedData) THEN RoutedData.items[1] ELSE RoutedData

C20_Node ==
    IF /\ IsPair(RoutedData)
       /\ RoutedData.items[2].shape = "dict"
       /\ HasKey(RoutedData.items[2], "langgraph_node")
    THEN DictGet(RoutedData.items[2], "langgraph_node", PyNone).v
    ELSE NoneV

\* C20: a messages-channel chunk yields at most one event and raises
\* nothing: exactly when its message is an AIMessageChunk with non-empty
\* decoded content, the one event is ContentEvent(content, role "assistant",
\* node metadata["langgraph_node"] or None); human, tool and other messages
\* yield nothing; whatever tool_calls or tool_call_chunks the chunk carries,
\* no ToolCallStartEvent or ToolCallEndEvent comes from it and the pending
\* dict is untouched.
C20_MessagesYieldOnlyContent ==
    Channel = "messages"
    => /\ last.exc = NoneV
       /\ Len(last.events) <= 1
       /\ _pending_tool_calls = last.pending
       /\ Positions(last.events, C19_IsLifecycle) = {}
       /\ IF /\ get_message_type_name(C20_Message) = "AIMessageChunk"
             /\ extract_message_content(C20_Message) # <<>>
          THEN last.events =
                  <<ContentEvent(extract_message_content(C20_Message),
                                 "assistant", C20_Node)>>
          ELSE last.events = <<>>

\* In dual mode, with a call open, a token chunk that also carries tool_calls
\* and tool_call_chunks yields its text only.
C20_Witness ==
    /\ Channel = "messages"
    /\ _track_tool_lifecycle
    /\ last.op = "chunk"
    /\ last.chunk = Envelope("messages", chunkCall)
    /\ last.pending # EmptyDict
    /\ _pending_tool_calls = last.pending
    /\ last.events = <<ContentEvent(sHi, "assistant", "agent")>>

\* The message of the last messages-channel chunk carries tool_call_chunks
\* and its content is nothing but the stringified tool-invocation dict.
C21_ToolEchoChunk ==
    /\ Channel = "messages"
    /\ get_message_type_name(C20_Message) = "AIMessageChunk"
    /\ "tool_call_chunks" \in DOMAIN C20_Message
    /\ C20_Message.tool_call_chunks # <<>>
    /\ extract_message_content(C20_Message) # <<>>
    /\ clean_tool_dict_from_content(extract_message_content(C20_Message)) = <<>>

\* C21: in messages mode, single or dual, an AI chunk that carries
\* tool_call_chunks and whose content is the stringified tool-invocation
\* dict produces no ContentEvent.
C21_ToolEchoFiltered ==
    C21_ToolEchoChunk => Positions(last.events, IsContent) = {}

\* A stream_mode the documentation allows: "updates", "messages", "auto", or
\* a list whose elements are all "updates" or "messages".
C22_ValidMode(x) ==
    \/ x.shape = "name" /\ x.v \in {"updates", "messages", "auto"}
    \/ /\ x.shape = "list"
       /\ \A i \in 1..Len(x.items) :
             x.items[i].shape = "name" /\ x.items[i].v \in {"updates", "messages"}

C22_GeneratorOps == {"parse", "aparse", "peek", "chunk", "stop", "raise"}

\* C22: mode configuration errors fail at construction, not during
\* iteration.  Every other stream_mode than the allowed ones makes the
\* constructor raise ValueError; an allowed one constructs a parser, and no
\* step of its parse() or aparse() raises or reports a ValueError.
C22_ModeErrorsAtConstruction ==
    /\ ~C22_ValidMode(stream_mode)
       => (pc = "raised" /\ last.op = "__init__" /\ last.exc = "ValueError")
    /\ C22_ValidMode(stream_mode)
       => /\ pc # "raised"
          /\ last.op = "__init__" => last.exc = NoneV
          /\ last.op \in C22_GeneratorOps => last.exc # "ValueError"
          /\ \A i \in 1..Len(out) :
                out[i].type = "ErrorEvent" => out[i].exception # "ValueError"

\* C23: parse_chunk(chunk) on a parser configured with "auto" raises
\* ValueError, returns nothing and changes neither the pending dict, the
\* extractors nor the configuration; in every other mode a call that returns
\* gives the events the mode's handler yields for that one chunk, never a
\* CompleteEvent; in list mode a chunk that is no (mode_name, data) envelope
\* of a known mode returns the empty list.
C23_ParseChunkOneChunk ==
    [][last'.op = "parse_chunk"
       => /\ config' = config
          /\ _extractors' = _extractors
          /\ IF _stream_mode = ModeStr("auto")
             THEN /\ last'.exc = "ValueError"
                  /\ last'.events = <<>>
                  /\ _pending_tool_calls' = _pending_tool_calls
             ELSE /\ last'.exc =
                        C12_Explicit(_stream_mode, last'.chunk,
                                     _pending_tool_calls).exc
                  /\ last'.exc = NoneV
                     => last'.events =
                           C12_Explicit(_stream_mode, last'.chunk,
                                        _pending_tool_calls).events
                  /\ Positions(last'.events, IsTerminal) = {}
                  /\ (_stream_mode.kind = "list" /\ C11_Skippable(last'.chunk))
                     => (last'.events = <<>> /\ last'.exc = NoneV)]_vars

\* parse_chunk in dual mode returned the start and the end of a tool call
\* that an updates envelope carried.
C23_Witness ==
    /\ _stream_mode.kind = "list"
    /\ _track_tool_lifecycle
    /\ last.op = "parse_chunk"
    /\ last.exc = NoneV
    /\ last.chunk = Envelope("updates", Update("agent", <<aiCall>>))
    /\ Len(last.events) = 1
    /\ IsStart(last.events[1])
    /\ "c1" \in DOMAIN _pending_tool_calls

\* The last step handled, in "updates" mode, an updates chunk without
\* interrupt whose messages carry no tool calls, and raised nothing.
C24_PlainUpdatesChunk ==
    /\ Channel = "updates"
    /\ ModeOfStep.kind = "str"
    /\ last.chunk.shape = "dict"
    /\ ~HasKey(last.chunk, "__interrupt__")
    /\ last.exc = NoneV
    /\ \A k \in 1..Len(MessagesIn(last.chunk)) :
          extract_tool_calls(MessagesIn(last.chunk)[k]) = <<>>

\* The contents of the ContentEvents of the last step, concatenated.
C24_Emitted ==
    Flatten([i \in 1..Len(SelectSeq(last.events, IsContent)) |->
                SelectSeq(last.events, IsContent)[i].content])

\* C24 as stated: the concatenated content of the ContentEvents of such a
\* chunk is the concatenation of every message's decoded content, in list
\* order.
C24_ContentIsDecodedContent ==
    C24_PlainUpdatesChunk
    => C24_Emitted =
          Flatten([k \in 1..Len(MessagesIn(last.chunk)) |->
                      extract_message_content(MessagesIn(last.chunk)[k])])

C24_Speaks(m) ==
    get_message_type_name(m) \in {"AIMessage", "AIMessageChunk", "HumanMessage"}

\* C24 as amended: the concatenated content of the ContentEvents is the
\* concatenation, in list order, of the decoded content of every AI or human
\* message, each trimmed of leading and trailing whitespace; messages of
\* other types contribute nothing.
C24_ContentIsTrimmedContent ==
    C24_PlainUpdatesChunk
    => C24_Emitted =
          Flatten([k \in 1..Len(MessagesIn(last.chunk)) |->
                      IF C24_Speaks(MessagesIn(last.chunk)[k])
                      THEN strip(extract_message_content(
                                     MessagesIn(last.chunk)[k]))
                      ELSE <<>>])

\* A chunk with a human message and then an AI message: two ContentEvents,
\* in list order.
C24_Witness ==
    /\ C24_PlainUpdatesChunk
    /\ last.chunk = Update("agent", <<human, aiOk>>)
    /\ Len(last.events) = 2
    /\ last.events[1] = ContentEvent(sHi, "human", "agent")
    /\ last.events[2] = ContentEvent(sOk, "assistant", "agent")
    /\ C24_Emitted = sHi \o sOk

C25_Given(x) == x.shape # "none"

\* C25: create_resume_input accepts exactly one of its two inputs: with
\* neither a decision list nor a value, or with both, it raises ValueError and
\* builds no resume input; with only a decision list it returns a Command
\* whose resume payload is {"decisions": <the list>}, every decision and its
\* args as given; with only a value the payload is that value.
C25_ExactlyOneInput ==
    last.op = "create_resume_input" =>
        /\ C25_Given(last.decisions) = C25_Given(last.value) =>
               /\ last.exc = "ValueError"
               /\ last.result = PyNone
        /\ C25_Given(last.decisions) /\ ~C25_Given(last.value) =>
               /\ last.exc = NoneV
               /\ last.result.type = "Command"
               /\ last.result.resume.shape = "dict"
               /\ Len(last.result.resume.items) = 1
               /\ last.result.resume.items[1].k = "decisions"
               /\ last.result.resume.items[1].v = last.decisions
        /\ ~C25_Given(last.decisions) /\ C25_Given(last.value) =>
               /\ last.exc = NoneV
               /\ last.result.type = "Command"
               /\ last.result.resume = last.value

\* A resume input built from an approval and an edit that carries args.
C25_Witness ==
    /\ last.op = "create_resume_input"
    /\ last.value = PyNone
    /\ last.decisions.shape = "list"
    /\ Len(last.decisions.items) = 2
    /\ HasKey(last.decisions.items[2], "args")
    /\ last.exc = NoneV
    /\ last.result.resume.items[1].v.items[2] = last.decisions.items[2]

IsStateUpdate(e) == e.type = "StateUpdateEvent"

\* A step that handed a dict without "__interrupt__" to the updates handler
\* and ended without an exception.
C26_NodeChunk ==
    /\ Channel = "updates"
    /\ RoutedData.shape = "dict"
    /\ ~HasKey(RoutedData, "__interrupt__")
    /\ last.exc = NoneV

\* One StateUpdateEvent per key other than "messages" of each node whose
\* state is a dict, in the order of the nodes and of their keys.
RECURSIVE C26_Expected(_)
C26_Expected(nodes) ==
    IF nodes = <<>> THEN <<>>
    ELSE (IF Head(nodes).v.shape = "dict"
          THEN StateUpdates(Head(nodes).k, Head(nodes).v.items)
          ELSE <<>>)
         \o C26_Expected(Tail(nodes))

C26_LastNode == RoutedData.items[Len(RoutedData.items)].k

\* C26: with state-update emission disabled no StateUpdateEvent is ever
\* yielded; with it enabled, a node-update chunk processed without an
\* exception yields exactly one StateUpdateEvent(node, key, value) per key
\* other than "messages" of each node's state dict, and a node's
\* StateUpdateEvents follow the events of that node's messages: they are
\* contiguous, no event of the same node comes after them, and those of the
\* chunk's last node end the step.
C26_StateUpdatesOnlyWhenEnabled ==
    /\ ~_include_state_updates =>
           /\ Positions(out, IsStateUpdate) = {}
           /\ Positions(last.events, IsStateUpdate) = {}
    /\ _include_state_updates /\ C26_NodeChunk =>
           /\ SelectSeq(last.events, IsStateUpdate) = C26_Expected(RoutedData.items)
           /\ \A i \in Positions(last.events, IsStateUpdate) :
                  \A j \in (i + 1)..Len(last.events) :
                      \/ IsStateUpdate(last.events[j])
                      \/ /\ last.events[i].node # C26_LastNode
                         /\ "node" \in DOMAIN last.events[j]
                         /\ last.events[j].node # last.events[i].node
                         /\ \A k \in (j + 1)..Len(last.events) :
                                IsStateUpdate(last.events[k]) =>
                                    last.events[k].node # last.events[i].node

\* The two-node chunk with emission enabled: step, todos (after the content
\* and usage of the messages key that sits between them), then count.
C26_Witness ==
    /\ _include_state_updates
    /\ C26_NodeChunk
    /\ last.chunk = stateChunk
    /\ Len(last.events) = 5
    /\ IsContent(last.events[1])
    /\ last.events[2].type = "UsageEvent"
    /\ last.events[3] = StateUpdateEvent("agent", "step", PyName("1"))
    /\ last.events[4] = StateUpdateEvent("agent", "todos", PyList(<<>>))
    /\ last.events[5] = StateUpdateEvent("tools", "count", PyName("1"))

\* The tool result of the last step: the second message of its chunk.
C27_Message == MessagesIn(RoutedData)[2]

C27_StatusError(m) == m.status = "error"

C27_DictError(m) ==
    /\ m.content.shape = "dict"
    /\ HasKey(m.content, "error")
    /\ Truthy(DictGet(m.content, "error", PyNone))

C27_PrefixError(m) ==
    /\ m.content.shape = "str"
    /\ \E p \in {error_prefixes[i] : i \in 1..Len(error_prefixes)} :
          startswith(strip(lower(m.content.v)), p)

\* The error message of the first of the three checks that matches.
C27_ErrorMessage(m) ==
    IF C27_StatusError(m)
    THEN (IF Truthy(m.content) THEN PyStr(PyToStr(m.content))
          ELSE PyStr(<<"Unknown error">>))
    ELSE IF C27_DictError(m)
    THEN PyStr(PyToStr(DictGet(m.content, "error", PyNone)))
    ELSE IF C27_PrefixError(m) THEN m.content
    ELSE PyNone

C27_IsError(m) == C27_StatusError(m) \/ C27_DictError(m) \/ C27_PrefixError(m)

\* C27: a tool result is an error exactly when its status is "error", or its
\* content is a dict with a truthy error key, or its text, trimmed and in
\* lower case, starts with "error:", "failed:", "exception:" or "traceback";
\* the first of the three, in that order, supplies the error message; the
\* ToolCallEndEvent of the result has status "error" and that message on a
\* match, and status "success" and no message otherwise.
C27_ToolErrorDetection ==
    (Channel = "updates" /\ last.exc = NoneV) =>
        /\ detect_tool_error(C27_Message).is_error = C27_IsError(C27_Message)
        /\ detect_tool_error(C27_Message).error_message =
               C27_ErrorMessage(C27_Message)
        /\ _track_tool_lifecycle => Positions(last.events, IsEnd) = {2}
        /\ \A i \in Positions(last.events, IsEnd) :
               /\ last.events[i].status =
                      (IF C27_IsError(C27_Message) THEN "error" ELSE "success")
               /\ last.events[i].error_message = C27_ErrorMessage(C27_Message)

\* A result with status "error" whose content is a dict with an error key:
\* the status check wins, and the message is the text of the whole content.
C27_Witness ==
    /\ Channel = "updates"
    /\ last.exc = NoneV
    /\ C27_StatusError(C27_Message)
    /\ C27_DictError(C27_Message)
    /\ Len(last.events) = 2
    /\ IsEnd(last.events[2])
    /\ last.events[2].status = "error"
    /\ last.events[2].error_message = PyStr(PyToStr(C27_Message.content))
    /\ last.events[2].error_message
           # PyStr(PyToStr(DictGet(C27_Message.content, "error", PyNone)))

\* A step that gave the updates handler a display_inline result whose
\* artifact, or whose JSON content when there is no artifact, has the key
\* display_type.
C28_DisplayResult ==
    /\ Channel = "updates"
    /\ last.exc = NoneV
    /\ Len(MessagesIn(RoutedData)) = 2
    /\ MessagesIn(RoutedData)[2].type = "ToolMessage"
    /\ MessagesIn(RoutedData)[2].name = "display_inline"
    /\ \/ /\ MessagesIn(RoutedData)[2].artifact.shape = "dict"
          /\ HasKey(MessagesIn(RoutedData)[2].artifact, "display_type")
       \/ /\ MessagesIn(RoutedData)[2].artifact = PyNone
          /\ MessagesIn(RoutedData)[2].content.shape = "str"
          /\ json_loads(MessagesIn(RoutedData)[2].content.v).ok
          /\ HasKey(json_loads(MessagesIn(RoutedData)[2].content.v).value,
                    "display_type")

C28_IsDisplayExtracted(e) ==
    /\ e.type = "ToolExtractedEvent"
    /\ e.tool_name = "display_inline"
    /\ e.extracted_type = "display_inline"

\* C28: a parser on which register_extractor was never called has an
\* extractor for display_inline beside think_tool and write_todos: a
\* display_inline result with a display_type yields exactly one
\* ToolExtractedEvent, with tool_name and extracted_type "display_inline".
C28_DisplayInlineBuiltIn ==
    C28_DisplayResult =>
        /\ "display_inline" \in DOMAIN _extractors
        /\ Cardinality(Positions(last.events, C28_IsDisplayExtracted)) = 1
        /\ Cardinality(Positions(last.events, C18_IsExtracted)) = 1

C29_RegistryOps == {"register_extractor", "unregister_extractor"}

\* C29: the registry maps each tool name to the extractor most recently
\* registered under it and not unregistered since.  Step by step:
\* register_extractor puts its extractor under the extractor's tool name, in
\* place of the one the name had, and leaves the other names alone;
\* unregister_extractor removes the name, or does nothing when the name is
\* not registered, and raises nothing; neither changes the pending-tool-call
\* map; and no other call changes the registry.
C29_RegistryFollowsCalls ==
    [][/\ last'.op = "register_extractor" =>
              /\ DOMAIN _extractors' =
                     DOMAIN _extractors \cup {last'.chunk.tool_name}
              /\ _extractors'[last'.chunk.tool_name] = last'.chunk
              /\ \A n \in DOMAIN _extractors \ {last'.chunk.tool_name} :
                     _extractors'[n] = _extractors[n]
              /\ _pending_tool_calls' = _pending_tool_calls
              /\ last'.exc = NoneV
       /\ last'.op = "unregister_extractor" =>
              /\ DOMAIN _extractors' = DOMAIN _extractors \ {last'.chunk.v}
              /\ \A n \in DOMAIN _extractors' :
                     _extractors'[n] = _extractors[n]
              /\ last'.chunk.v \notin DOMAIN _extractors =>
                     _extractors' = _extractors
              /\ _pending_tool_calls' = _pending_tool_calls
              /\ last'.exc = NoneV
       /\ last'.op \notin C29_RegistryOps => _extractors' = _extractors
      ]_vars

\* A custom extractor has taken the place of the built-in one for
\* think_tool while a tool call is pending, and hidden is not registered.
C29_Witness ==
    /\ last.op = "register_extractor"
    /\ last.chunk = RaisingExtractor("think_tool")
    /\ _extractors["think_tool"] = RaisingExtractor("think_tool")
    /\ "hidden" \notin DOMAIN _extractors
    /\ "write_todos" \in DOMAIN _extractors
    /\ _pending_tool_calls # EmptyDict

\* The stream has carried a write_todos tool result with a todo list.
C30_TodosCarried ==
    \E i \in 1..Len(fed) :
        \E m \in {toolTodos} :
            fed[i] \in {Update("tools", <<m>>),
                        Envelope("updates", Update("tools", <<m>>))}

C30_IsTodoList(d) ==
    /\ HasKey(d, "todo_list")
    /\ DictGet(d, "todo_list", PyNone).shape = "list"
    /\ DictGet(d, "status", PyNone) = PyName("streaming")

\* C30: when the agent's stream carries a write_todos tool result with a
\* todo list, stream_graph_updates yields a dict
\* {"todo_list": <the list>, "status": "streaming"}.
C30_TodoListYielded ==
    (C30_TodosCarried /\ _stream_mode # ModeStr("messages")) =>
        Positions(stream_graph_updates_yielded(out), C30_IsTodoList) # {}

\* C31: iteration is pull-based, one chunk at a time.  A step that requests
\* a raw chunk requests one chunk, and only once every chunk requested before
\* has been handled and its events handed to the consumer; a step that
\* handles a chunk handles the next raw chunk in delivery order, no chunk
\* twice, and hands over all of its events before anything else is pulled.
C31_PullBased ==
    [][/\ Len(raw') > Len(raw) =>
              /\ raw' = Append(raw, last'.chunk)
              /\ fed = raw
              /\ head = <<>>
       /\ Len(fed') > Len(fed) =>
              /\ fed' = Append(fed, last'.chunk)
              /\ Len(fed') <= Len(raw')
              /\ fed' = SubSeq(raw', 1, Len(fed'))
              /\ out' = out \o last'.events
      ]_vars

\* A parse() in auto mode whose second chunk was requested after the events
\* of the peeked first one: both chunks handled once, in order.
C31_Witness ==
    /\ api = "parse"
    /\ _stream_mode = ModeStr("auto")
    /\ last.op = "chunk"
    /\ Len(raw) = 2
    /\ fed = raw
    /\ raw[1] # raw[2]
    /\ Len(out) > Len(last.events)
    /\ last.events # <<>>

\* The one message of the chunk of the last step.
C32_Message == MessagesIn(RoutedData)[1]

\* The events of the message: the StateUpdateEvents of the other keys of its
\* node come after them and belong to the node.
C32_Events == SelectSeq(last.events, LAMBDA e : ~IsStateUpdate(e))

IsUsage(e) == e.type = "UsageEvent"
IsExtracted(e) == e.type = "ToolExtractedEvent"

\* The place of an event in the order of one AI message.
C32_Rank(e) ==
    CASE IsStart(e) -> 1
      [] IsContent(e) -> 2
      [] IsUsage(e) -> 3
      [] OTHER -> 0

\* The ids of the tool calls whose name is not skipped, in tool_calls order.
C32_NonSkippedIds(m) ==
    LET keep == SelectSeq(m.tool_calls,
                          LAMBDA tc : tc.name \notin _skip_tools)
    IN  [i \in 1..Len(keep) |-> keep[i].id]

C32_StartIds ==
    LET starts == SelectSeq(C32_Events, IsStart)
    IN  [i \in 1..Len(starts) |-> starts[i].id]

\* A parse_chunk call that raised returned no list of events, and is held to
\* the order only.
\* The order within one message: starts, then at most one ContentEvent, then
\* at most one UsageEvent; a ToolExtractedEvent before the ToolCallEndEvent.
C32_Ordered ==
    /\ get_message_type_name(C32_Message) = "AIMessage" =>
           /\ \A i \in 1..Len(C32_Events) : C32_Rank(C32_Events[i]) > 0
           /\ \A i, j \in 1..Len(C32_Events) :
                  i < j => C32_Rank(C32_Events[i]) <= C32_Rank(C32_Events[j])
           /\ Cardinality(Positions(C32_Events, IsContent)) <= 1
           /\ Cardinality(Positions(C32_Events, IsUsage)) <= 1
    /\ get_message_type_name(C32_Message) = "ToolMessage" =>
           /\ \A i \in 1..Len(C32_Events) :
                  IsExtracted(C32_Events[i]) \/ IsEnd(C32_Events[i])
           /\ Cardinality(Positions(C32_Events, IsExtracted)) <= 1
           /\ Cardinality(Positions(C32_Events, IsEnd)) <= 1
           /\ \A i \in Positions(C32_Events, IsExtracted),
                 j \in Positions(C32_Events, IsEnd) : i < j

\* C32 as stated: the events of one AI message of an updates chunk are one
\* ToolCallStartEvent per non-skipped tool call, in tool_calls order, then at
\* most one ContentEvent, then at most one UsageEvent; for one Tool message
\* the ToolExtractedEvent comes before the ToolCallEndEvent.
C32_StartPerNonSkippedCall ==
    Channel = "updates" =>
        /\ C32_Ordered
        /\ (get_message_type_name(C32_Message) = "AIMessage"
               /\ last.exc = NoneV) =>
               C32_StartIds = C32_NonSkippedIds(C32_Message)

\* C32, amended: with lifecycle tracking the events of one AI message are one
\* ToolCallStartEvent per non-skipped tool call, in tool_calls order, and
\* without it there is no ToolCallStartEvent; then at most one ContentEvent,
\* then at most one UsageEvent; for one Tool message the ToolExtractedEvent
\* comes before the ToolCallEndEvent.
C32_EventOrderOfMessage ==
    Channel = "updates" =>
        /\ C32_Ordered
        /\ (get_message_type_name(C32_Message) = "AIMessage"
               /\ last.exc = NoneV) =>
               C32_StartIds = (IF _track_tool_lifecycle
                               THEN C32_NonSkippedIds(C32_Message)
                               ELSE <<>>)

\* An AI message with three tool calls, the second skipped, text and usage:
\* two starts in order, the content, the usage.
C32_Witness ==
    /\ Channel = "updates"
    /\ get_message_type_name(C32_Message) = "AIMessage"
    /\ Len(C32_Message.tool_calls) = 3
    /\ Len(C32_Events) = 4
    /\ C32_StartIds = <<"c1", "c3">>
    /\ IsContent(C32_Events[3])
    /\ IsUsage(C32_Events[4])

\* What the extractor of a tool result is applied to.
C34_Argument(m) == IF m.artifact # PyNone THEN m.artifact ELSE m.content

\* A step whose one message is the result of a tool that has an extractor
\* and is not skipped.
C34_ExtractedResult ==
    /\ Channel = "updates"
    /\ last.exc = NoneV
    /\ get_message_type_name(C32_Message) = "ToolMessage"
    /\ C32_Message.name \in DOMAIN _extractors
    /\ C32_Message.name \notin _skip_tools

\* C34: when the artifact of a tool result is not None the extractor is
\* applied to the artifact and not to the content; when it is None the
\* extractor is applied to the content; the result of the ToolCallEndEvent is
\* the content in both cases.
C34_ArtifactBeforeContent ==
    C34_ExtractedResult =>
        LET value == Extract(_extractors[C32_Message.name],
                             C34_Argument(C32_Message)).value
        IN  /\ (Positions(C32_Events, IsExtracted) # {}) = (value # PyNone)
            /\ \A i \in Positions(C32_Events, IsExtracted) :
                   C32_Events[i].data = value
            /\ \A i \in Positions(C32_Events, IsEnd) :
                   C32_Events[i].result = C32_Message.content
            /\ _track_tool_lifecycle => Positions(C32_Events, IsEnd) # {}

\* A think_tool result whose content is JSON text with one reflection and
\* whose artifact holds another: the artifact's is extracted, and the end
\* carries the content.
C34_Witness ==
    /\ C34_ExtractedResult
    /\ C32_Message.content = PyStr(sJsonRefl)
    /\ C32_Message.artifact = reflectionArtifact
    /\ Len(C32_Events) = 2
    /\ C32_Events[1] =
           ToolExtractedEvent("think_tool", "reflection", PyStr(<<"A">>))
    /\ IsEnd(C32_Events[2])
    /\ C32_Events[2].result = PyStr(sJsonRefl)

\* C33: a consumer may stop pulling from parse() after any event.  The step
\* in which it stops requests the one chunk the event came from and raises
\* nothing; the pending map then holds exactly the ids of the
\* ToolCallStartEvents the consumer received and has received no
\* ToolCallEndEvent for, each with its start event, and no record of an event
\* that was not delivered; and no later step of that generator requests a
\* chunk or yields an event.
C33_AbandonIsSafe ==
    [][/\ last'.op = "abandon" =>
              /\ last'.exc = NoneV
              /\ \A i \in 1..Len(last'.events) : ~IsTerminal(last'.events[i])
              /\ raw' = Append(raw, last'.chunk)
              /\ out' = out \o last'.events
              /\ _track_tool_lifecycle' =>
                     DOMAIN _pending_tool_calls' = started'
              /\ started' = Track(started, last'.events)
              /\ \A id \in DOMAIN _pending_tool_calls' :
                     \/ /\ id \in DOMAIN _pending_tool_calls
                        /\ _pending_tool_calls'[id] = _pending_tool_calls[id]
                     \/ \E i \in 1..Len(last'.events) :
                            _pending_tool_calls'[id] = last'.events[i]
       /\ last.op = "abandon" =>
              last'.op \in {"parse", "aparse", "parse_chunk", "reset"}
      ]_vars

\* The consumer stopped after the first of the two starts of a message: one
\* record, and none for the second call.
C33_Witness ==
    /\ last.op = "abandon"
    /\ MessagesIn(RoutedData) = <<aiCalls>>
    /\ last.events = <<ToolCallStartEvent("c1", "search", "args", "agent")>>
    /\ DOMAIN _pending_tool_calls = {"c1"}
    /\ pc = "done"

\* The ends of id among the first n events.
C36_EndedBefore(events, n, id) ==
    \E i \in 1..(n - 1) : IsEnd(events[i]) /\ events[i].id = id

\* C36: the pending map is never cleared implicitly.  A step removes a record
\* only if it is reset() or delivers the ToolCallEndEvent of that id; the
\* start and the end of a parse() or aparse(), with a CompleteEvent or an
\* ErrorEvent, leave the map as it is, and an abandoned parse() leaves every
\* record it did not end; the ToolCallEndEvent that a later parse(), aparse()
\* or parse_chunk() yields for a record left in the map has a duration_ms.
C36_PendingSurvivesCalls ==
    [][/\ \A id \in DOMAIN _pending_tool_calls \ DOMAIN _pending_tool_calls' :
              \/ last'.op = "reset"
              \/ \E i \in 1..Len(last'.events) :
                     IsEnd(last'.events[i]) /\ last'.events[i].id = id
       /\ last'.op \in {"parse", "aparse", "stop", "raise"} =>
              _pending_tool_calls' = _pending_tool_calls
       /\ last'.op \in {"chunk", "parse_chunk", "abandon"} =>
              \A i \in Positions(last'.events, IsEnd) :
                  (/\ last'.events[i].id \in DOMAIN _pending_tool_calls
                   /\ ~C36_EndedBefore(last'.events, i, last'.events[i].id))
                  => last'.events[i].duration_ms # "None"
      ]_vars

\* The first event of an aparse() is the end, with a duration, of a call
\* whose start an earlier call on the parser had left in the map.
C36_Witness ==
    /\ api = "aparse"
    /\ last.op = "chunk"
    /\ Len(out) = 1
    /\ IsEnd(out[1])
    /\ out[1].duration_ms = "float"
    /\ out[1].id \in DOMAIN last.pending
    /\ out[1].id \notin DOMAIN _pending_tool_calls

\* A chunk step that yielded nothing, raised nothing and left the pending
\* dict and the generator as they were.
C37_Skipped ==
    /\ last'.events = <<>>
    /\ last'.exc = NoneV
    /\ _pending_tool_calls' = _pending_tool_calls
    /\ pc' = "loop"

\* C37: auto mode decides once, from the first chunk, and never revises.  The
\* peek sets the mode to the list when the first chunk is an envelope of a
\* known mode and to "updates" otherwise, and no step of the loop changes
\* it; after a first chunk that is no known envelope every chunk that is no
\* dict, an envelope among them, is skipped; after a first chunk that is one,
\* every chunk that is no 2-tuple or names an unknown mode is skipped; a
\* skip raises nothing, and the exhausted stream ends with a CompleteEvent.
C37_AutoDecidesOnce ==
    [][_stream_mode = ModeStr("auto") =>
          /\ (last'.op = "peek" /\ last'.exc = NoneV) =>
                 effective_mode' =
                     (IF _is_multi_mode(last'.chunk)
                      THEN ModeList(<<"updates", "messages">>)
                      ELSE ModeStr("updates"))
          /\ pc = "loop" => effective_mode' = effective_mode
          /\ (last'.op = "chunk" /\ effective_mode.kind = "str"
                 /\ last'.chunk.shape # "dict") => C37_Skipped
          /\ (last'.op = "chunk" /\ effective_mode.kind = "list"
                 /\ ~_is_multi_mode(last'.chunk)) => C37_Skipped
          /\ last'.op = "stop" =>
                 /\ last'.events = <<CompleteEvent>>
                 /\ out' = Append(out, CompleteEvent)
      ]_vars

\* An auto-mode parse() whose first chunk was a dict with events and whose
\* second was an envelope of a known mode: the envelope gave nothing, and
\* the stream ended with the CompleteEvent.
C37_Witness ==
    /\ _stream_mode = ModeStr("auto")
    /\ api = "parse"
    /\ last.op = "stop"
    /\ Len(raw) = 2
    /\ fed = raw
    /\ raw[1].shape = "dict"
    /\ _is_multi_mode(raw[2])
    /\ raw[2].items[1].v = "updates"
    /\ effective_mode = ModeStr("updates")
    /\ Len(out) >= 2
    /\ out[Len(out)] = CompleteEvent
    /\ out = Handled("parse", raw[1]).events \o <<CompleteEvent>>

\* The events of the data of an envelope under the handler its mode name
\* selects, whatever the configured list: the updates handler with content
\* suppressed, or the messages handler.
C38_ByModeName ==
    IF Channel = "updates"
    THEN UpdatesHandler_process_chunk(_create_updates_handler(TRUE),
                                      RoutedData, last.pending).events
    ELSE IF Channel = "messages"
    THEN MessagesHandler_process_chunk(RoutedData, last.pending).events
    ELSE <<>>

\* C38: in list mode the routing of a chunk depends on its mode name only,
\* not on the configured list.  A ("messages", data) envelope gets the events
\* of the messages handler and an ("updates", data) envelope the structural
\* events of the updates handler, with any list, also ["updates"],
\* ["messages"] and []; the updates channel yields no ContentEvent under any
\* of them.
C38_RoutedByModeName ==
    (last.op \in {"chunk", "parse_chunk"} /\ _stream_mode.kind = "list") =>
        /\ last.exc = NoneV
        /\ last.events = C38_ByModeName
        /\ Channel = "updates" =>
               /\ Positions(last.events, IsContent) = {}
               /\ last.events
                      = SelectSeq(UpdatesHandler_process_chunk(
                                      _create_updates_handler(FALSE),
                                      RoutedData, last.pending).events,
                                  LAMBDA e : ~IsContent(e))
        /\ Channel \notin {"updates", "messages"} => last.events = <<>>

\* A parser configured with ["messages"] alone was given an updates
\* envelope whose message has text and two tool calls: the two starts and
\* the usage, and no content.
C38_Witness ==
    /\ _stream_mode = ModeList(<<"messages">>)
    /\ _track_tool_lifecycle
    /\ last.op = "chunk"
    /\ Channel = "updates"
    /\ MessagesIn(RoutedData) = <<aiCalls>>
    /\ Len(last.events) = 3
    /\ IsStart(last.events[1])
    /\ IsStart(last.events[2])
    /\ IsUsage(last.events[3])

\* The type of a message is none of AI, Tool and Human.
C39_UnknownType(message) ==
    get_message_type_name(message)
        \notin {"AIMessage", "AIMessageChunk", "ToolMessage", "HumanMessage"}

\* A node value that is no dict, or has no messages, or whose messages value
\* is empty, or holds only messages of an unknown type.
C39_MalformedNode(state_data) ==
    \/ state_data.shape # "dict"
    \/ ~HasKey(state_data, "messages")
    \/ ~Truthy(DictGet(state_data, "messages", PyNone))
    \/ LET messages == DictGet(state_data, "messages", PyNone) IN
       IF messages.shape = "list"
       THEN \A i \in 1..Len(messages.items) :
               C39_UnknownType(messages.items[i])
       ELSE C39_UnknownType(messages)

C39_Malformed(chunk) ==
    \/ chunk.shape # "dict"
    \/ /\ ~HasKey(chunk, "__interrupt__")
       /\ \A i \in 1..Len(chunk.items) : C39_MalformedNode(chunk.items[i].v)

\* The events the malformed part may not produce: any event that is not the
\* StateUpdateEvent of another key of the node.
C39_FromMessages(e) == ~IsStateUpdate(e)

RECURSIVE C40_Joined(_)
C40_Joined(texts) ==
    IF texts = <<>> THEN <<>>
    ELSE IF Len(texts) = 1 THEN texts[1]
    ELSE texts[1] \o <<"\n">> \o C40_Joined(Tail(texts))

\* The message content flushed to the display items, and the message content
\* printed, each in order.
C40_Flushed ==
    LET messages == SelectSeq(adapter._display_items,
                              LAMBDA item : item.type = "message")
    IN  C40_Joined([i \in 1..Len(messages) |-> messages[i].data.content])

C40_PrintedContent ==
    LET lines == SelectSeq(adapter.stdout,
                           LAMBDA p : p.by = "_print_message"
                                      /\ p.part = "content")
    IN  C40_Joined([i \in 1..Len(lines) |-> lines[i].text])

\* The print() calls that open a display item.
C40_ItemHead(p) ==
    \/ p.by = "_print_message" /\ p.part = "label"
    \/ p.by = "_print_tool" /\ p.part = "status"
    \/ p.by = "_print_extraction" /\ p.part \in {"type", "data"}

\* C40 as stated: after any sequence of update(event) calls every display
\* item has been printed once, and the flushed message content has been
\* printed once, nothing of it repeated and nothing omitted, also when a
\* flushed message was merged into a message already rendered.
C40_EverythingPrintedOnce ==
    /\ Cardinality(Positions(adapter.stdout, C40_ItemHead))
           = Len(adapter._display_items)
    /\ C40_PrintedContent = C40_Flushed

\* A step of run that called update(event), and the event.
C35_Processed == Len(run'.updated) = Len(run.updated) + 1

C35_Event == run'.updated[Len(run'.updated)]

C35_Decided ==
    /\ C35_Processed
    /\ C35_Event.type = "InterruptEvent"
    /\ run'.decision # PyNone

\* C35: run passes the events of the current parse() to update() in the order
\* they were yielded; it returns exactly when it has processed a CompleteEvent
\* or an ErrorEvent, or an InterruptEvent for which prompt_interrupt returned
\* None, and does nothing after that; after an InterruptEvent with a decision
\* list the stored interrupt is cleared, the next step is one graph.stream
\* call on Command(resume={"decisions": decision}) with no event of the old
\* stream processed in between; a stream is started only at the start of run
\* (on input_data) and after such an interrupt.
C35_RunLoop ==
    [][/\ run.pc # "returned"
       /\ \/ run'.updated = run.updated
          \/ /\ run.pc = "for"
             /\ run.seen < Len(out)
             /\ out' = out
             /\ run'.updated = Append(run.updated, out[run.seen + 1])
             /\ run'.seen = run.seen + 1
       /\ run'.pc = "returned"
             <=> /\ C35_Processed
                 /\ \/ C35_Event.type \in {"CompleteEvent", "ErrorEvent"}
                    \/ /\ C35_Event.type = "InterruptEvent"
                       /\ run'.decision = PyNone
       /\ C35_Decided
             => /\ run'.pc = "stream"
                /\ adapter'._interrupt = PyNone
                /\ run'.calls = run.calls
                /\ run'.decision.shape = "list"
                /\ run'.current_input
                      = Command(PyDict(<<[k |-> "decisions",
                                          v |-> run'.decision]>>))
       /\ run'.pc = "stream"
             => \/ run.pc = "idle" /\ run'.current_input \in InputData
                \/ C35_Decided
       /\ run.pc = "stream"
             => /\ run'.pc = "for"
                /\ run'.seen = 0
                /\ out' = <<>>
                /\ run'.updated = run.updated
                /\ run'.calls = Append(run.calls, run.current_input)
       /\ run'.calls # run.calls => run.pc = "stream"]_vars

\* An interrupt answered with an edit, the resumed stream with one message,
\* and the return on its CompleteEvent.
C35_Witness ==
    /\ run.pc = "returned"
    /\ Len(run.calls) = 2
    /\ run.calls[1] \in InputData
    /\ run.calls[2]
          = Command(PyDict(<<
                [k |-> "decisions",
                 v |-> PyList(<<PyDict(<<
                          [k |-> "type", v |-> PyName("edit")],
                          [k |-> "args",
                           v |-> PyDict(<<[k |-> "cmd",
                                           v |-> PyName("ls")]>>)]>>)>>)]>>))
    /\ Len(run.updated) = 4
    /\ run.updated[1].type = "InterruptEvent"
    /\ run.updated[2].type = "ContentEvent"
    /\ run.updated[3].type = "UsageEvent"
    /\ run.updated[4] = CompleteEvent
    /\ adapter._interrupt = PyNone
    /\ adapter._complete

====
